---- MODULE Spec2Model ----
(***************************************************************************)
(* A model of axios4go's in-memory response cache (cache.go): MemoryCache  *)
(* with its RWMutex, atomic hit/miss counters, capacity eviction and the   *)
(* background cleanup goroutine, driven by concurrent callers that own the *)
(* *CacheEntry objects they pass to Set and the copies Get hands back.     *)
(*                                                                         *)
(* Pointers are modelled explicitly: c.entries maps a key to the address   *)
(* of a CacheEntry on the heap; a CacheEntry's Body and Headers are        *)
(* references to a byte buffer and a header map, so that a struct copy     *)
(* shares them exactly as Go's slice and map values do.                    *)
(*                                                                         *)
(* Each critical section is one step that takes the lock and runs the      *)
(* section, followed by the step that releases it.                         *)
(***************************************************************************)
EXTENDS Integers, FiniteSets, Sequences, TLC

\* ---------------------------------------------------------------- bounds
MaxTime == 3
MaxOps == 3
MaxCap == 2

\* ------------------------------------------------------- input domains
Keys == {"", "a", "b"}
Objs == {1, 2}
TTLs == {-1, 0, 1, 2}
Procs == {"p1", "p2"}
ClientKeys == {"GET:/a"}
Fields == {"StatusCode", "ExpiresAt"}
Nil == [nil |-> TRUE]
NoOne == "none"
\* no Proxy in the RequestOptions; a nil Transport
NoProxy == "direct"

VARIABLES
    entries,    \* c.entries: key -> address of the stored *CacheEntry
    heap,       \* address -> CacheEntry struct (Body/Headers are references)
    bufs,       \* backing array of a Body slice: reference -> content
    hdrs,       \* http.Header map: reference -> content
    hits,       \* c.hits
    misses,     \* c.misses
    maxSize,    \* c.maxSize
    mu,         \* c.mu: [w |-> writer or NoOne, r |-> set of readers]
    now,        \* time.Now()
    pc,         \* per goroutine: position in the operation it runs
    loc,        \* per goroutine: arguments and locals of that operation
    ret,        \* per goroutine: the entry its last Get returned, if it kept it
    swpc,       \* position of the cleanupLoop goroutine
    ops,        \* number of calls made so far (bounded by MaxOps)
    gets,       \* history: number of Get calls made
    writes,     \* history: key -> values written by the Sets on that key
    deleted,    \* history: key -> whether Delete(key) was called since the
                \* last Set on it, and found it "present" or "absent"
    chain,      \* history: the last call of Set and the Get that follows it
    run,        \* history: keys inserted one after another into the store
    track,      \* which of the histories the specification records
    stopped,    \* c.stopped
    stopChan,   \* c.stopChan: "open" or "closed"
    closes,     \* history: how many times close(c.stopChan) was executed
    closeCalls, \* history: how many calls of Close have returned
    cacheConfig, \* the client's *CacheConfig, or Nil
    policy,     \* the request last put to the policy functions, and what
                \* each of them returned
    req,        \* per goroutine: the request it executes through the client
    net,        \* number of network calls made so far (bounded by MaxOps)
    stats,      \* per goroutine: the locals and the result of its call of
                \* Stats, and (history) the counters and size the cache has
                \* had since that call began
    promise,    \* the *Promise an Async helper returned with the goroutines
                \* that use it, or Nil
    HTTPClient  \* c.HTTPClient: the Timeout, CheckRedirect (the limit its
                \* closure holds, 0 for nil) and Transport (the proxy it
                \* goes through) of the client's one http.Client

vars == <<entries, heap, bufs, hdrs, hits, misses, maxSize, mu, now, pc, loc,
          ret, swpc, ops, gets, writes, deleted, chain, run, track,
          stopped, stopChan, closes, closeCalls, cacheConfig, policy, req,
          net, stats, promise, HTTPClient>>

\* the fields Close and the cleanup loop's exit use
lifecycle == <<stopped, stopChan, closes, closeCalls>>

\* what belongs to the HTTP client that uses the cache
client == <<cacheConfig, policy, promise, HTTPClient>>

\* the requests in progress in the client's request executor
executor == <<req, net>>

\* ------------------------------------------------------------ helpers
Remove(f, k) == [j \in (DOMAIN f) \ {k} |-> f[j]]
Put(f, k, v) == [j \in (DOMAIN f) \cup {k} |-> IF j = k THEN v ELSE f[j]]
EmptyMap == [j \in {} |-> 0]

\* IsExpired with !Before in place of After
IsExpired_NotBefore(e) == now >= e.ExpiresAt

\* CacheEntry.IsExpired: time.Now().After(e.ExpiresAt)
IsExpired(e) == now > e.ExpiresAt

\* the values a reader of the struct e sees (slice and map dereferenced)
View(e) == [Body |-> bufs[e.Body], StatusCode |-> e.StatusCode,
            Headers |-> hdrs[e.Headers], CreatedAt |-> e.CreatedAt,
            ExpiresAt |-> e.ExpiresAt]
\* the four fields of a value that the caller of Set supplies
Supplied(v) == [Body |-> v.Body, StatusCode |-> v.StatusCode,
                Headers |-> v.Headers, CreatedAt |-> v.CreatedAt]
\* what a Get of each stored key would copy out right now
StoreView == [k \in DOMAIN entries |-> View(heap[entries[k]])]

MuFree == mu.w = NoOne /\ mu.r = {}
NoLocals == [key |-> "", exists |-> FALSE, copy |-> Nil, checked |-> 0,
             late |-> FALSE, afterDel |-> "no"]
NoChain == [st |-> "none"]
NoStats == [size |-> 0, hits |-> 0, res |-> Nil, seen |-> {}]
InStats(p) == pc[p] \in {"stats_rlock", "stats_runlock", "stats_hits",
                         "stats_misses"}

\* history: every call of Stats in progress sees the counters and the size
\* the step leaves
Observed ==
    [q \in Procs |->
        IF InStats(q)
        THEN [stats[q] EXCEPT !.seen = @ \cup
                {<<hits', misses', Cardinality(DOMAIN entries')>>}]
        ELSE stats[q]]
Broken == [keys |-> <<>>, t |-> 0, ok |-> FALSE]
KeepChain(p) == IF chain.st = "getting" /\ chain.proc = p THEN chain ELSE NoChain

\* &http.Client{}: no timeout, the default redirect policy, the default
\* transport
NewHTTPClient == [Timeout |-> 0, CheckRedirect |-> 0, Transport |-> NoProxy]

\* ---------------------------------------------------------------- Init
\* no HTTP client is built on the cache: the callers use it directly
NoClient ==
    /\ cacheConfig = Nil
    /\ policy = Nil
    /\ req = [p \in Procs |-> Nil]
    /\ net = 0
    /\ promise = Nil
    /\ HTTPClient = Nil

\* NewMemoryCache: an empty map, zero counters, the lock free, the cleanup
\* goroutine started.  The callers hold two entry objects they built.
NewMemoryCache(histories) ==
    /\ entries = EmptyMap
    /\ heap = [o \in Objs |-> [Body |-> o, StatusCode |-> 200 + o,
                               Headers |-> o, CreatedAt |-> o - 1,
                               ExpiresAt |-> 0]]
    /\ bufs = [o \in Objs |-> 0]
    /\ hdrs = [o \in Objs |-> 0]
    /\ hits = 0
    /\ misses = 0
    /\ maxSize \in 0..MaxCap
    /\ mu = [w |-> NoOne, r |-> {}]
    /\ now = 1
    /\ pc = [p \in Procs |-> "idle"]
    /\ loc = [p \in Procs |-> NoLocals]
    /\ ret = [p \in Procs |-> Nil]
    /\ swpc = "wait"
    /\ ops = 0
    /\ gets = 0
    /\ writes = [k \in Keys \cup ClientKeys |-> {}]
    /\ deleted = [k \in Keys \cup ClientKeys |-> "no"]
    /\ chain = NoChain
    /\ run = [keys |-> <<>>, t |-> 0, ok |-> "run" \in histories]
    /\ track = histories
    /\ stopped = FALSE
    /\ stopChan = "open"
    /\ closes = 0
    /\ closeCalls = 0
    /\ stats = [p \in Procs |-> NoStats]

\* ----------------------------------------------------------------- clock
Tick ==
    /\ now < MaxTime
    /\ now' = now + 1
    /\ UNCHANGED <<entries, heap, bufs, hdrs, hits, misses, maxSize, mu, pc,
                   loc, ret, swpc, ops, gets, writes, deleted, chain, run,
                   track,
                   lifecycle, client, executor, stats>>

\* ------------------------------------------------------------------- Set
\* evictOne that removes an oldest entry whether or not one has expired
evictOne_OldestOnly(ents) ==
    LET oldest == {k \in DOMAIN ents : \A j \in DOMAIN ents :
                     ~(heap[ents[j]].CreatedAt < heap[ents[k]].CreatedAt)}
    IN {IF oldestKey # "" THEN Remove(ents, oldestKey) ELSE ents :
          oldestKey \in oldest}

\* evictOne: the maps the eviction pass can leave behind, one for each
\* iteration order of the Go map
evictOne(ents) ==
    LET expired == {k \in DOMAIN ents : IsExpired(heap[ents[k]])}
        oldest == {k \in DOMAIN ents : \A j \in DOMAIN ents :
                     ~(heap[ents[j]].CreatedAt < heap[ents[k]].CreatedAt)}
    IN IF expired # {}
       THEN {Remove(ents, k) : k \in expired}
       ELSE {IF oldestKey # "" THEN Remove(ents, oldestKey) ELSE ents :
               oldestKey \in oldest}

\* Set with a non-positive ttl: returns before it takes the lock
SetReturnsEarly(p, k) ==
    UNCHANGED <<entries, heap, mu, pc, writes, deleted, run>>

\* SetStores that stamps the time of the call as ExpiresAt
SetStores_NoTTL(p, k, o, ttl) ==
    /\ MuFree
    /\ \E kept \in (IF maxSize > 0 /\ Cardinality(DOMAIN entries) >= maxSize
                    THEN evictOne(entries) ELSE {entries}) :
          entries' = Put(kept, k, o)
    /\ heap' = [heap EXCEPT ![o].ExpiresAt = now]
    /\ mu' = [mu EXCEPT !.w = p]
    /\ pc' = [pc EXCEPT ![p] = "set_unlock"]
    /\ writes' = IF "writes" \in track
                 THEN [writes EXCEPT ![k] = @ \cup
                         {[View(heap[o]) EXCEPT !.ExpiresAt = now + ttl]}]
                 ELSE writes
    /\ deleted' = [deleted EXCEPT ![k] = "no"]
    /\ run' = IF /\ run.ok
                 /\ Len(run.keys) <= maxSize
                 /\ \A i \in 1..Len(run.keys) : run.keys[i] # k
                 /\ now > run.t
                 /\ \A j \in DOMAIN entries : ~IsExpired(heap[entries[j]])
              THEN [keys |-> Append(run.keys, k), t |-> now, ok |-> TRUE]
              ELSE Broken

\* Set with a positive ttl, from taking the write lock: evict if at
\* capacity, stamp ExpiresAt on the caller's object and store its address
SetStores(p, k, o, ttl) ==
    /\ MuFree
    /\ \E kept \in (IF maxSize > 0 /\ Cardinality(DOMAIN entries) >= maxSize
                    THEN evictOne(entries) ELSE {entries}) :
          entries' = Put(kept, k, o)
    /\ heap' = [heap EXCEPT ![o].ExpiresAt = now + ttl]
    /\ mu' = [mu EXCEPT !.w = p]
    /\ pc' = [pc EXCEPT ![p] = "set_unlock"]
    /\ writes' = IF "writes" \in track
                 THEN [writes EXCEPT ![k] = @ \cup
                         {[View(heap[o]) EXCEPT !.ExpiresAt = now + ttl]}]
                 ELSE writes
    /\ deleted' = [deleted EXCEPT ![k] = "no"]
    /\ run' = IF /\ run.ok
                 /\ Len(run.keys) <= maxSize
                 /\ \A i \in 1..Len(run.keys) : run.keys[i] # k
                 /\ now > run.t
                 /\ \A j \in DOMAIN entries : ~IsExpired(heap[entries[j]])
              THEN [keys |-> Append(run.keys, k), t |-> now, ok |-> TRUE]
              ELSE Broken

\* history of a call Set(k, o, ttl): for ttl <= 0 the store as it is when
\* Set is called, for ttl > 0 the fields the caller passes and the expiry
SetCalled(p, k, o, ttl) ==
    IF ttl <= 0
    THEN IF "noop" \in track
         THEN [st |-> "noop", key |-> k,
               before |-> <<entries, heap, bufs, hdrs, hits, misses, mu, pc>>]
         ELSE NoChain
    ELSE IF "chain" \in track
         THEN [st |-> "setting", proc |-> p, key |-> k,
               snap |-> Supplied(View(heap[o])), exp |-> now + ttl]
         ELSE IF "ttl" \in track
              THEN [st |-> "stored", proc |-> p, key |-> k, ttl |-> ttl]
              ELSE IF "evict" \in track
                   THEN [st |-> "evicting", proc |-> p, key |-> k, obj |-> o,
                         before |-> entries,
                         full |-> /\ maxSize > 0
                                  /\ Cardinality(DOMAIN entries) >= maxSize,
                         expired |-> {j \in DOMAIN entries :
                                        IsExpired(heap[entries[j]])},
                         created |-> [j \in DOMAIN entries |->
                                        heap[entries[j]].CreatedAt]]
                   ELSE NoChain

\* Cache.Set: a non-positive ttl returns at once, a positive one stores
CacheSet(p, k, o, ttl) ==
    /\ pc[p] = "idle"
    /\ ops < MaxOps
    /\ ops' = ops + 1
    /\ IF ttl <= 0 THEN SetReturnsEarly(p, k) ELSE SetStores(p, k, o, ttl)
    /\ chain' = SetCalled(p, k, o, ttl)
    /\ UNCHANGED <<bufs, hdrs, hits, misses, maxSize, now, loc, ret, swpc, gets,
                   track,
                   lifecycle, client>>
    /\ stats' = Observed

\* Set that returns early only for a negative ttl
Set_ZeroTTLStores(p, k, o, ttl) ==
    /\ pc[p] = "idle"
    /\ ops < MaxOps
    /\ ops' = ops + 1
    /\ IF ttl < 0 THEN SetReturnsEarly(p, k) ELSE SetStores(p, k, o, ttl)
    /\ chain' = SetCalled(p, k, o, ttl)
    /\ UNCHANGED <<bufs, hdrs, hits, misses, maxSize, now, loc, ret, swpc, gets,
                   track,
                   lifecycle, client, executor>>
    /\ stats' = Observed

\* Set, called on the cache directly
Set(p, k, o, ttl) ==
    /\ CacheSet(p, k, o, ttl)
    /\ UNCHANGED executor

\* Set's deferred Unlock and return
SetUnlock(p) ==
    /\ pc[p] = "set_unlock"
    /\ mu' = [mu EXCEPT !.w = NoOne]
    /\ pc' = [pc EXCEPT ![p] = "idle"]
    /\ chain' = IF chain.st = "setting" /\ chain.proc = p
                THEN [chain EXCEPT !.st = "set"] ELSE NoChain
    /\ UNCHANGED <<entries, heap, bufs, hdrs, hits, misses, maxSize, now, loc,
                   ret, swpc, ops, gets, writes, deleted, run, track,
                   lifecycle, client, executor, stats>>

\* Set called with a nil entry: a non-positive ttl returns before the entry
\* is touched; a positive one takes the write lock, evicts if at capacity and
\* then assigns ExpiresAt through the nil pointer, which panics
SetNilEntry(p, k, ttl) ==
    /\ pc[p] = "idle"
    /\ ops < MaxOps
    /\ ops' = ops + 1
    /\ IF ttl <= 0
       THEN UNCHANGED <<entries, mu, pc, run>>
       ELSE /\ MuFree
            /\ \E kept \in (IF /\ maxSize > 0
                                /\ Cardinality(DOMAIN entries) >= maxSize
                             THEN evictOne(entries) ELSE {entries}) :
                  entries' = kept
            /\ mu' = [mu EXCEPT !.w = p]
            /\ pc' = [pc EXCEPT ![p] = "set_panic"]
            /\ run' = Broken
    /\ chain' = NoChain
    /\ UNCHANGED <<heap, bufs, hdrs, hits, misses, maxSize, now, loc, ret,
                   swpc, gets, writes, deleted, track,
                   lifecycle, client, executor>>
    /\ stats' = Observed

\* the panic unwinds Set: the deferred Unlock runs and the panic reaches the
\* caller's goroutine
SetPanics(p) ==
    /\ pc[p] = "set_panic"
    /\ mu' = [mu EXCEPT !.w = NoOne]
    /\ pc' = [pc EXCEPT ![p] = "panicked"]
    /\ UNCHANGED <<entries, heap, bufs, hdrs, hits, misses, maxSize, now, loc,
                   ret, swpc, ops, gets, writes, deleted, chain, run, track,
                   lifecycle, client, executor, stats>>

\* ------------------------------------------------------------------- Get
\* Get, from taking the read lock: look the key up and copy the entry's
\* fields
CacheGet(p, k) ==
    /\ pc[p] = "idle"
    /\ ops < MaxOps
    /\ ops' = ops + 1
    /\ mu.w = NoOne
    /\ loc' = [loc EXCEPT ![p] =
                 [NoLocals EXCEPT !.key = k,
                                  !.exists = k \in DOMAIN entries,
                                  !.copy = IF k \in DOMAIN entries
                                           THEN heap[entries[k]] ELSE Nil,
                                  !.late = /\ writes[k] # {}
                                           /\ \A w \in writes[k] : now > w.ExpiresAt,
                                  !.afterDel = deleted[k]]]
    /\ mu' = [mu EXCEPT !.r = @ \cup {p}]
    /\ pc' = [pc EXCEPT ![p] = "get_runlock"]
    /\ gets' = gets + 1
    /\ chain' = IF chain.st = "set" /\ chain.key = k
                THEN [chain EXCEPT !.st = "getting", !.proc = p] ELSE NoChain
    /\ UNCHANGED <<entries, heap, bufs, hdrs, hits, misses, maxSize, now, ret,
                   swpc, writes, deleted, run, track,
                   lifecycle, client, stats>>

\* Get, called on the cache directly
Get(p, k) ==
    /\ CacheGet(p, k)
    /\ UNCHANGED executor

\* GetRUnlock that goes on without releasing the read lock
GetRUnlock_KeepsLock(p) ==
    /\ pc[p] = "get_runlock"
    /\ pc' = [pc EXCEPT ![p] = IF loc[p].exists THEN "get_expiry" ELSE "get_miss"]
    /\ chain' = KeepChain(p)
    /\ UNCHANGED <<entries, heap, bufs, hdrs, hits, misses, maxSize, mu, now,
                   loc, ret, swpc, ops, gets, writes, deleted, run, track,
                   lifecycle, client, executor, stats>>

\* c.mu.RUnlock(), once the entry is copied; a key not found is a miss
GetRUnlock(p) ==
    /\ pc[p] = "get_runlock"
    /\ mu' = [mu EXCEPT !.r = @ \ {p}]
    /\ pc' = [pc EXCEPT ![p] = IF loc[p].exists THEN "get_expiry" ELSE "get_miss"]
    /\ chain' = KeepChain(p)
    /\ UNCHANGED <<entries, heap, bufs, hdrs, hits, misses, maxSize, now, loc,
                   ret, swpc, ops, gets, writes, deleted, run, track,
                   lifecycle, client, executor, stats>>

\* GetExpiry that reports an expired entry as a miss and leaves it stored
GetExpiry_NoDelete(p) ==
    /\ pc[p] = "get_expiry"
    /\ pc' = [pc EXCEPT ![p] = IF IsExpired(loc[p].copy)
                               THEN "get_miss" ELSE "get_hit"]
    /\ loc' = [loc EXCEPT ![p].checked = IF "writes" \in track THEN now ELSE 0]
    /\ chain' = KeepChain(p)
    /\ UNCHANGED <<entries, heap, bufs, hdrs, hits, misses, maxSize, mu, now,
                   ret, swpc, ops, gets, writes, deleted, run, track,
                   lifecycle, client, executor, stats>>

\* Get, outside the lock: the expiry check on the copy
GetExpiry(p) ==
    /\ pc[p] = "get_expiry"
    /\ pc' = [pc EXCEPT ![p] = IF IsExpired(loc[p].copy)
                               THEN "get_delete" ELSE "get_hit"]
    /\ loc' = [loc EXCEPT ![p].checked = IF "writes" \in track THEN now ELSE 0]
    /\ chain' = KeepChain(p)
    /\ UNCHANGED <<entries, heap, bufs, hdrs, hits, misses, maxSize, mu, now,
                   ret, swpc, ops, gets, writes, deleted, run, track,
                   lifecycle, client, executor, stats>>

\* GetMiss that counts no miss for an entry found expired
GetMiss_ExpiredUncounted(p) ==
    /\ pc[p] = "get_miss"
    /\ misses' = IF loc[p].exists THEN misses ELSE misses + 1
    /\ ret' = [ret EXCEPT ![p] = Nil]
    /\ pc' = [pc EXCEPT ![p] = "idle"]
    /\ loc' = [loc EXCEPT ![p] = NoLocals]
    /\ chain' = NoChain
    /\ UNCHANGED <<entries, heap, bufs, hdrs, hits, maxSize, mu, now, swpc, ops,
                   gets, writes, deleted, run, track,
                   lifecycle, client, executor>>
    /\ stats' = Observed

\* atomic.AddInt64(&c.misses, 1); return nil
GetMiss(p) ==
    /\ pc[p] = "get_miss"
    /\ misses' = misses + 1
    /\ ret' = [ret EXCEPT ![p] = Nil]
    /\ pc' = [pc EXCEPT ![p] = "idle"]
    /\ loc' = [loc EXCEPT ![p] = NoLocals]
    /\ chain' = NoChain
    /\ UNCHANGED <<entries, heap, bufs, hdrs, hits, maxSize, mu, now, swpc, ops,
                   gets, writes, deleted, run, track,
                   lifecycle, client, executor>>
    /\ stats' = Observed

\* atomic.AddInt64(&c.hits, 1); return entryCopy
GetHit(p) ==
    /\ pc[p] = "get_hit"
    /\ hits' = hits + 1
    /\ ret' = [ret EXCEPT ![p] = IF "ret" \in track THEN loc[p].copy ELSE Nil]
    /\ pc' = [pc EXCEPT ![p] = "idle"]
    /\ loc' = [loc EXCEPT ![p] = NoLocals]
    /\ chain' = NoChain
    /\ UNCHANGED <<entries, heap, bufs, hdrs, misses, maxSize, mu, now, swpc,
                   ops, gets, writes, deleted, run, track,
                   lifecycle, client, executor>>
    /\ stats' = Observed

\* ---------------------------------------------------------------- Delete
\* deleteLocked that removes the entry only once it has expired
deleteLocked_OnlyExpired(p, k) ==
    /\ MuFree
    /\ entries' = IF k \in DOMAIN entries /\ ~IsExpired(heap[entries[k]])
                  THEN entries ELSE Remove(entries, k)
    /\ mu' = [mu EXCEPT !.w = p]
    /\ run' = Broken
    /\ UNCHANGED <<heap, bufs, hdrs, hits, misses, maxSize, now, ret, swpc,
                   gets, writes, track,
                   lifecycle, client, executor>>
    /\ stats' = Observed

\* Delete's critical section, from taking the write lock
deleteLocked(p, k) ==
    /\ MuFree
    /\ entries' = Remove(entries, k)
    /\ mu' = [mu EXCEPT !.w = p]
    /\ run' = Broken
    /\ UNCHANGED <<heap, bufs, hdrs, hits, misses, maxSize, now, ret, swpc,
                   gets, writes, track,
                   lifecycle, client, executor>>
    /\ stats' = Observed

\* Delete called by the user
Delete(p, k) ==
    /\ pc[p] = "idle"
    /\ ops < MaxOps
    /\ ops' = ops + 1
    /\ deleteLocked(p, k)
    /\ pc' = [pc EXCEPT ![p] = "del_unlock"]
    /\ deleted' = IF "deleted" \in track
                  THEN [deleted EXCEPT ![k] = IF k \in DOMAIN entries
                                              THEN "present" ELSE "absent"]
                  ELSE deleted
    /\ chain' = NoChain
    /\ UNCHANGED loc

\* Delete called by Get for the entry it found expired
GetDelete(p) ==
    /\ pc[p] = "get_delete"
    /\ deleteLocked(p, loc[p].key)
    /\ pc' = [pc EXCEPT ![p] = "get_del_unlock"]
    /\ chain' = KeepChain(p)
    /\ UNCHANGED <<loc, ops, deleted>>

\* Delete's deferred Unlock and return, to the user or into Get
DeleteUnlock(p) ==
    /\ pc[p] \in {"del_unlock", "get_del_unlock"}
    /\ mu' = [mu EXCEPT !.w = NoOne]
    /\ pc' = [pc EXCEPT ![p] = IF pc[p] = "del_unlock" THEN "idle" ELSE "get_miss"]
    /\ chain' = IF pc[p] = "del_unlock" THEN NoChain ELSE KeepChain(p)
    /\ UNCHANGED <<entries, heap, bufs, hdrs, hits, misses, maxSize, now, loc,
                   ret, swpc, ops, gets, writes, deleted, run, track,
                   lifecycle, client, executor, stats>>

\* ----------------------------------------------------------------- Clear
\* history of a call of Clear: which keys were stored when it ran
Cleared ==
    IF "cleared" \in track
    THEN [k \in Keys |-> IF k \in DOMAIN entries THEN "cleared"
                                                ELSE "cleared_absent"]
    ELSE deleted

\* Clear that drops the expired entries only
Clear_OnlyExpired(p) ==
    /\ pc[p] = "idle"
    /\ ops < MaxOps
    /\ ops' = ops + 1
    /\ MuFree
    /\ entries' = [k \in {j \in DOMAIN entries : ~IsExpired(heap[entries[j]])}
                     |-> entries[k]]
    /\ mu' = [mu EXCEPT !.w = p]
    /\ pc' = [pc EXCEPT ![p] = "clear_unlock"]
    /\ chain' = NoChain
    /\ run' = Broken
    /\ deleted' = Cleared
    /\ UNCHANGED <<heap, bufs, hdrs, hits, misses, maxSize, now, loc, ret, swpc,
                   gets, writes, track,
                   lifecycle, client, executor>>
    /\ stats' = Observed

Clear(p) ==
    /\ pc[p] = "idle"
    /\ ops < MaxOps
    /\ ops' = ops + 1
    /\ MuFree
    /\ entries' = EmptyMap
    /\ mu' = [mu EXCEPT !.w = p]
    /\ pc' = [pc EXCEPT ![p] = "clear_unlock"]
    /\ chain' = NoChain
    /\ run' = Broken
    /\ deleted' = Cleared
    /\ UNCHANGED <<heap, bufs, hdrs, hits, misses, maxSize, now, loc, ret, swpc,
                   gets, writes, track,
                   lifecycle, client, executor>>
    /\ stats' = Observed

ClearUnlock(p) ==
    /\ pc[p] = "clear_unlock"
    /\ mu' = [mu EXCEPT !.w = NoOne]
    /\ pc' = [pc EXCEPT ![p] = "idle"]
    /\ chain' = NoChain
    /\ UNCHANGED <<entries, heap, bufs, hdrs, hits, misses, maxSize, now, loc,
                   ret, swpc, ops, gets, writes, deleted, run, track,
                   lifecycle, client, executor, stats>>

\* ----------------------------------------------------------------- Close
\* a goroutine calls Close and waits for the write lock
CloseCall(p) ==
    /\ pc[p] = "idle"
    /\ ops < MaxOps
    /\ ops' = ops + 1
    /\ pc' = [pc EXCEPT ![p] = "close_lock"]
    /\ chain' = NoChain
    /\ UNCHANGED <<entries, heap, bufs, hdrs, hits, misses, maxSize, mu, now,
                   loc, ret, swpc, gets, writes, deleted, run, track,
                   lifecycle, client, executor, stats>>

\* Close's critical section without the test of c.stopped
CloseLock_NoStoppedTest(p) ==
    /\ pc[p] = "close_lock"
    /\ MuFree
    /\ mu' = [mu EXCEPT !.w = p]
    /\ stopped' = TRUE
    /\ IF stopChan = "open"
       THEN /\ stopChan' = "closed"
            /\ closes' = closes + 1
            /\ pc' = [pc EXCEPT ![p] = "close_unlock"]
       ELSE /\ pc' = [pc EXCEPT ![p] = "panicked"]
            /\ UNCHANGED <<stopChan, closes>>
    /\ chain' = NoChain
    /\ UNCHANGED <<entries, heap, bufs, hdrs, hits, misses, maxSize, now, loc,
                   ret, swpc, ops, gets, writes, deleted, run, track,
                   closeCalls, client, executor, stats>>

\* Close's critical section: the first Close sets c.stopped and closes
\* c.stopChan; closing a closed channel panics, with the lock still held
CloseLock(p) ==
    /\ pc[p] = "close_lock"
    /\ MuFree
    /\ mu' = [mu EXCEPT !.w = p]
    /\ IF ~stopped
       THEN /\ stopped' = TRUE
            /\ IF stopChan = "open"
               THEN /\ stopChan' = "closed"
                    /\ closes' = closes + 1
                    /\ pc' = [pc EXCEPT ![p] = "close_unlock"]
               ELSE /\ pc' = [pc EXCEPT ![p] = "panicked"]
                    /\ UNCHANGED <<stopChan, closes>>
       ELSE /\ pc' = [pc EXCEPT ![p] = "close_unlock"]
            /\ UNCHANGED <<stopped, stopChan, closes>>
    /\ chain' = NoChain
    /\ UNCHANGED <<entries, heap, bufs, hdrs, hits, misses, maxSize, now, loc,
                   ret, swpc, ops, gets, writes, deleted, run, track,
                   closeCalls, client, executor, stats>>

\* c.mu.Unlock() and return
CloseUnlock(p) ==
    /\ pc[p] = "close_unlock"
    /\ mu' = [mu EXCEPT !.w = NoOne]
    /\ pc' = [pc EXCEPT ![p] = "idle"]
    /\ closeCalls' = closeCalls + 1
    /\ chain' = NoChain
    /\ UNCHANGED <<entries, heap, bufs, hdrs, hits, misses, maxSize, now, loc,
                   ret, swpc, ops, gets, writes, deleted, run, track,
                   stopped, stopChan, closes, client, executor, stats>>

\* ------------------------------------------------- cleanupLoop / sweep
\* history of a sweep: the store as the sweep found it
Swept ==
    IF "sweep" \in track
    THEN [st |-> "swept", before |-> entries,
          expired |-> {k \in DOMAIN entries : IsExpired(heap[entries[k]])}]
    ELSE NoChain

\* cleanupExpired that empties the store
cleanupExpired_Everything ==
    /\ swpc = "wait"
    /\ ops < MaxOps
    /\ ops' = ops + 1
    /\ MuFree
    /\ entries' = EmptyMap
    /\ mu' = [mu EXCEPT !.w = "sweeper"]
    /\ swpc' = "unlock"
    /\ chain' = NoChain
    /\ run' = Broken
    /\ UNCHANGED <<heap, bufs, hdrs, hits, misses, maxSize, now, pc, loc, ret,
                   gets, writes, deleted, track,
                   lifecycle, client, executor>>
    /\ stats' = Observed

\* the ticker fires and cleanupExpired removes every expired entry
cleanupExpired ==
    /\ swpc = "wait"
    /\ ops < MaxOps
    /\ ops' = ops + 1
    /\ MuFree
    /\ entries' = [k \in {j \in DOMAIN entries : ~IsExpired(heap[entries[j]])}
                     |-> entries[k]]
    /\ mu' = [mu EXCEPT !.w = "sweeper"]
    /\ swpc' = "unlock"
    /\ chain' = Swept
    /\ run' = Broken
    /\ UNCHANGED <<heap, bufs, hdrs, hits, misses, maxSize, now, pc, loc, ret,
                   gets, writes, deleted, track,
                   lifecycle, client, executor>>
    /\ stats' = Observed

\* cleanupLoop: the ticker fires, as it does for as long as the loop runs,
\* and cleanupExpired is called
cleanupLoop ==
    /\ swpc = "wait"
    /\ MuFree
    /\ entries' = [k \in {j \in DOMAIN entries : ~IsExpired(heap[entries[j]])}
                     |-> entries[k]]
    /\ mu' = [mu EXCEPT !.w = "sweeper"]
    /\ swpc' = "unlock"
    /\ chain' = Swept
    /\ run' = Broken
    /\ UNCHANGED <<heap, bufs, hdrs, hits, misses, maxSize, now, pc, loc, ret,
                   ops, gets, writes, deleted, track,
                   lifecycle, client, executor>>
    /\ stats' = Observed

cleanupUnlock ==
    /\ swpc = "unlock"
    /\ mu' = [mu EXCEPT !.w = NoOne]
    /\ swpc' = "wait"
    /\ chain' = NoChain
    /\ UNCHANGED <<entries, heap, bufs, hdrs, hits, misses, maxSize, now, pc,
                   loc, ret, ops, gets, writes, deleted, run, track,
                   lifecycle, client, executor, stats>>

\* cleanupLoop: case <-c.stopChan: return
cleanupStop ==
    /\ swpc = "wait"
    /\ stopChan = "closed"
    /\ swpc' = "stopped"
    /\ chain' = NoChain
    /\ UNCHANGED <<entries, heap, bufs, hdrs, hits, misses, maxSize, mu, now,
                   pc, loc, ret, ops, gets, writes, deleted, run, track,
                   lifecycle, client, executor, stats>>

\* --------------------------------------------------- what callers can do
\* with the entry Get returned: write a byte of its Body
MutateRetBody(p) ==
    /\ pc[p] = "idle"
    /\ ret[p] # Nil
    /\ ops < MaxOps
    /\ ops' = ops + 1
    /\ bufs' = [bufs EXCEPT ![ret[p].Body] = 1 - @]
    /\ chain' = NoChain
    /\ run' = Broken
    /\ UNCHANGED <<entries, heap, hdrs, hits, misses, maxSize, mu, now, pc, loc,
                   ret, swpc, gets, writes, deleted, track,
                   lifecycle, client, executor, stats>>

\* with the entry Get returned: set a header in its Headers
MutateRetHeaders(p) ==
    /\ pc[p] = "idle"
    /\ ret[p] # Nil
    /\ ops < MaxOps
    /\ ops' = ops + 1
    /\ hdrs' = [hdrs EXCEPT ![ret[p].Headers] = 1 - @]
    /\ chain' = NoChain
    /\ run' = Broken
    /\ UNCHANGED <<entries, heap, bufs, hits, misses, maxSize, mu, now, pc, loc,
                   ret, swpc, gets, writes, deleted, track,
                   lifecycle, client, executor, stats>>

\* with the entry Get returned: assign one of its fields
MutateRetField(p, f) ==
    /\ pc[p] = "idle"
    /\ ret[p] # Nil
    /\ ops < MaxOps
    /\ ops' = ops + 1
    /\ ret' = [ret EXCEPT ![p] = IF f = "StatusCode"
                                 THEN [@ EXCEPT !.StatusCode = 500]
                                 ELSE [@ EXCEPT !.ExpiresAt = MaxTime + 2]]
    /\ chain' = NoChain
    /\ run' = Broken
    /\ UNCHANGED <<entries, heap, bufs, hdrs, hits, misses, maxSize, mu, now,
                   pc, loc, swpc, gets, writes, deleted, track,
                   lifecycle, client, executor, stats>>

\* with the entry object they passed to Set: assign one of its fields
\* (while no goroutine is inside a critical section of the cache)
MutateEntry(p, o, f) ==
    /\ pc[p] = "idle"
    /\ MuFree
    /\ ops < MaxOps
    /\ ops' = ops + 1
    /\ heap' = [heap EXCEPT ![o] = IF f = "StatusCode"
                                   THEN [@ EXCEPT !.StatusCode = 500]
                                   ELSE [@ EXCEPT !.ExpiresAt = MaxTime + 2]]
    /\ chain' = NoChain
    /\ run' = Broken
    /\ UNCHANGED <<entries, bufs, hdrs, hits, misses, maxSize, mu, now, pc, loc,
                   ret, swpc, gets, writes, deleted, track,
                   lifecycle, client, executor, stats>>

\* ----------------------------------------------------------------- Stats
\* a call of Stats, before it has the read lock
StatsCall(p) ==
    /\ pc[p] = "idle"
    /\ ops < MaxOps
    /\ ops' = ops + 1
    /\ pc' = [pc EXCEPT ![p] = "stats_rlock"]
    /\ stats' = [stats EXCEPT ![p] =
                   [NoStats EXCEPT !.seen =
                      {<<hits, misses, Cardinality(DOMAIN entries)>>}]]
    /\ chain' = NoChain
    /\ UNCHANGED <<entries, heap, bufs, hdrs, hits, misses, maxSize, mu, now,
                   loc, ret, swpc, gets, writes, deleted, run, track,
                   lifecycle, client, executor>>

\* c.mu.RLock(); size := int64(len(c.entries))
StatsRLock(p) ==
    /\ pc[p] = "stats_rlock"
    /\ mu.w = NoOne
    /\ mu' = [mu EXCEPT !.r = @ \cup {p}]
    /\ stats' = [stats EXCEPT ![p].size = Cardinality(DOMAIN entries)]
    /\ pc' = [pc EXCEPT ![p] = "stats_runlock"]
    /\ chain' = NoChain
    /\ UNCHANGED <<entries, heap, bufs, hdrs, hits, misses, maxSize, now, loc,
                   ret, swpc, ops, gets, writes, deleted, run, track,
                   lifecycle, client, executor>>

\* c.mu.RUnlock()
StatsRUnlock(p) ==
    /\ pc[p] = "stats_runlock"
    /\ mu' = [mu EXCEPT !.r = @ \ {p}]
    /\ pc' = [pc EXCEPT ![p] = "stats_hits"]
    /\ chain' = NoChain
    /\ UNCHANGED <<entries, heap, bufs, hdrs, hits, misses, maxSize, now, loc,
                   ret, swpc, ops, gets, writes, deleted, run, track,
                   lifecycle, client, executor, stats>>

\* Hits: atomic.LoadInt64(&c.hits)
StatsHits(p) ==
    /\ pc[p] = "stats_hits"
    /\ stats' = [stats EXCEPT ![p].hits = hits]
    /\ pc' = [pc EXCEPT ![p] = "stats_misses"]
    /\ chain' = NoChain
    /\ UNCHANGED <<entries, heap, bufs, hdrs, hits, misses, maxSize, mu, now,
                   loc, ret, swpc, ops, gets, writes, deleted, run, track,
                   lifecycle, client, executor>>

\* Misses: atomic.LoadInt64(&c.misses); Size: size; return
StatsMisses(p) ==
    /\ pc[p] = "stats_misses"
    /\ stats' = [stats EXCEPT ![p].res =
                   [Hits |-> stats[p].hits, Misses |-> misses,
                    Size |-> stats[p].size]]
    /\ pc' = [pc EXCEPT ![p] = "idle"]
    /\ chain' = NoChain
    /\ UNCHANGED <<entries, heap, bufs, hdrs, hits, misses, maxSize, mu, now,
                   loc, ret, swpc, ops, gets, writes, deleted, run, track,
                   lifecycle, client, executor>>

\* ------------------------------------------------- the caching policy
\* the letters of a method name folded to lower case
Fold == [m \in {"GET", "get", "Get", "POST", "post"} |->
            IF m \in {"GET", "get", "Get"} THEN "get" ELSE "post"]

\* strings.EqualFold
EqualFold(a, b) == Fold[a] = Fold[b]

\* Bool: a pointer to a bool
Bool(v) == [v |-> v]

\* isMethodCacheable that compares the method names exactly
isMethodCacheable_ExactCase(cfg, method) ==
    LET methods == IF cfg.CacheableMethods = Nil
                   THEN <<"GET">> ELSE cfg.CacheableMethods.list
    IN  \E i \in 1..Len(methods) : methods[i] = method

\* isMethodCacheable
isMethodCacheable(cfg, method) ==
    LET methods == IF cfg.CacheableMethods = Nil
                   THEN <<"GET">> ELSE cfg.CacheableMethods.list
    IN  \E i \in 1..Len(methods) : EqualFold(methods[i], method)

\* shouldCacheRequest that caches unless the request disables it
shouldCacheRequest_OptOut(cfg, options) ==
    IF cfg = Nil \/ cfg.Cache = Nil
    THEN FALSE
    ELSE IF /\ options.Cache # Nil
            /\ options.Cache.Enabled # Nil
            /\ ~options.Cache.Enabled.v
         THEN FALSE
         ELSE isMethodCacheable(cfg, options.Method)

\* shouldCacheRequest
shouldCacheRequest(cfg, options) ==
    IF cfg = Nil \/ cfg.Cache = Nil
    THEN FALSE
    ELSE IF /\ options.Cache # Nil
            /\ options.Cache.Enabled # Nil
            /\ ~options.Cache.Enabled.v
         THEN FALSE
         ELSE IF /\ options.Cache # Nil
                 /\ options.Cache.Enabled # Nil
                 /\ options.Cache.Enabled.v
              THEN isMethodCacheable(cfg, options.Method)
              ELSE FALSE

\* shouldForceRefresh that never forces
shouldForceRefresh_Never(options) ==
    options.Cache # Nil /\ FALSE

\* shouldForceRefresh
shouldForceRefresh(options) ==
    options.Cache # Nil /\ options.Cache.ForceRefresh

\* DefaultCacheKeyFunc
DefaultCacheKeyFunc(method, fullURL, headers) == method \o ":" \o fullURL

\* a key function the user configured: any function of its three arguments
KeyFunc(method, fullURL, headers) ==
    "fn(" \o method \o "," \o fullURL \o "," \o headers \o ")"

\* generateCacheKey that asks the configured key function first
generateCacheKey_KeyFuncFirst(cfg, options, fullURL) ==
    IF cfg.KeyFunc # Nil
    THEN KeyFunc(options.Method, fullURL, options.Headers)
    ELSE IF options.Cache # Nil /\ options.Cache.CustomKey # ""
         THEN options.Cache.CustomKey
         ELSE DefaultCacheKeyFunc(options.Method, fullURL, options.Headers)

\* generateCacheKey (it reads cfg.KeyFunc: cfg is not nil when it is called)
generateCacheKey(cfg, options, fullURL) ==
    IF options.Cache # Nil /\ options.Cache.CustomKey # ""
    THEN options.Cache.CustomKey
    ELSE IF cfg.KeyFunc # Nil
         THEN KeyFunc(options.Method, fullURL, options.Headers)
         ELSE DefaultCacheKeyFunc(options.Method, fullURL, options.Headers)

\* getCacheTTL that prefers the client's default
getCacheTTL_DefaultFirst(cfg, options) ==
    IF cfg.DefaultTTL > 0
    THEN cfg.DefaultTTL
    ELSE IF options.Cache # Nil THEN options.Cache.TTL ELSE cfg.DefaultTTL

\* getCacheTTL
getCacheTTL(cfg, options) ==
    IF options.Cache # Nil /\ options.Cache.TTL > 0
    THEN options.Cache.TTL
    ELSE cfg.DefaultTTL

\* the configurations and requests the policy functions are applied to
Methods == {"GET", "get", "POST"}
URLs == {"/a", "/b"}
HeaderSets == {"h0", "h1"}
MethodLists == {Nil, [list |-> <<>>], [list |-> <<"GET">>],
                [list |-> <<"post">>], [list |-> <<"Get", "POST">>]}
CacheConfigs ==
    {Nil} \cup [Cache : {Nil, [store |-> "MemoryCache"]},
                DefaultTTL : {-1, 0, 2},
                KeyFunc : {Nil, [fn |-> "KeyFunc"]},
                CacheableMethods : MethodLists]
RequestCacheOptions ==
    {Nil} \cup [Enabled : {Nil, Bool(TRUE), Bool(FALSE)},
                TTL : {-1, 0, 1},
                ForceRefresh : BOOLEAN,
                CustomKey : {"", "k"}]
RequestOptions ==
    [Method : Methods, Headers : HeaderSets, Cache : RequestCacheOptions]

\* a client built with any configuration, and any one request for it
NewClientWithCache ==
    /\ cacheConfig \in CacheConfigs
    /\ policy \in [options : RequestOptions, fullURL : URLs, st : {"new"}]
    /\ req = [p \in Procs |-> Nil]
    /\ net = 0
    /\ promise = Nil
    /\ HTTPClient = NewHTTPClient

\* the policy functions applied to the request, as the tests apply them
PolicyCall(options, fullURL) ==
    /\ policy # Nil
    /\ policy.st = "new"
    /\ options = policy.options
    /\ fullURL = policy.fullURL
    /\ policy' = [options |-> options,
                  fullURL |-> fullURL,
                  st |-> "done",
                  should |-> shouldCacheRequest(cacheConfig, options),
                  force |-> shouldForceRefresh(options),
                  cacheable |-> IF cacheConfig = Nil THEN Nil
                                ELSE Bool(isMethodCacheable(cacheConfig,
                                                            options.Method)),
                  key |-> IF cacheConfig = Nil THEN Nil
                          ELSE [s |-> generateCacheKey(cacheConfig, options,
                                                       fullURL)],
                  ttl |-> IF cacheConfig = Nil THEN Nil
                          ELSE [d |-> getCacheTTL(cacheConfig, options)]]
    /\ UNCHANGED <<entries, heap, bufs, hdrs, hits, misses, maxSize, mu, now,
                   pc, loc, ret, swpc, ops, gets, writes, deleted, chain, run,
                   track, lifecycle, cacheConfig, promise, HTTPClient,
                   executor, stats>>

\* ------------------------------------------------ the request executor
\* the configurations and requests the executor is run with
ClientConfigs ==
    {Nil} \cup [Cache : {Nil}, DefaultTTL : {2}, KeyFunc : {Nil},
                CacheableMethods : {Nil}]
          \cup [Cache : {[store |-> "MemoryCache"]}, DefaultTTL : {0, 2},
                KeyFunc : {Nil}, CacheableMethods : {Nil}]
ClientRequests ==
    [Method : {"GET"}, Headers : {"h0"},
     Cache : [Enabled : {Nil}, TTL : {0}, ForceRefresh : BOOLEAN,
              CustomKey : {""}]
             \cup [Enabled : {Bool(FALSE)}, TTL : {0}, ForceRefresh : {FALSE},
                   CustomKey : {""}]
             \cup [Enabled : {Bool(TRUE)}, TTL : {0, 1},
                   ForceRefresh : BOOLEAN, CustomKey : {""}]]
    \cup [Method : {"POST"}, Headers : {"h0"},
          Cache : [Enabled : {Bool(TRUE)}, TTL : {1}, ForceRefresh : {FALSE},
                   CustomKey : {""}]]

\* a client with a cache configuration and no request in progress; its
\* cache has room for every key the requests use
NewClient ==
    /\ maxSize = MaxCap
    /\ cacheConfig \in ClientConfigs
    /\ policy = Nil
    /\ req = [p \in Procs |-> Nil]
    /\ net = 0
    /\ promise = Nil
    /\ HTTPClient = NewHTTPClient

Finished(p) == IF req[p] = Nil THEN TRUE ELSE req[p].st \in {"done", "failed"}

\* the entry objects no stored entry and no other request refers to
Free(p) ==
    {o \in Objs :
        /\ \A k \in DOMAIN entries : entries[k] # o
        /\ \A q \in Procs \ {p} :
              IF req[q] = Nil THEN TRUE
              ELSE req[q].st # "setting" \/ req[q].obj # o}

\* &CacheEntry{...}: the next object that is free
Fresh(p, o) == o \in Free(p) /\ \A u \in Free(p) : o <= u

\* a request enters the executor: evaluate shouldCache; a request to cache
\* that does not force a refresh computes its key and looks it up first
Request(p, options, fullURL) ==
    /\ pc[p] = "idle"
    /\ Finished(p)
    /\ ops < MaxOps
    /\ net < MaxOps
    /\ LET should == shouldCacheRequest(cacheConfig, options)
           force == shouldForceRefresh(options)
       IN  req' = [req EXCEPT ![p] =
                     [options |-> options,
                      fullURL |-> fullURL,
                      should |-> should,
                      force |-> force,
                      key |-> IF should
                              THEN generateCacheKey(cacheConfig, options,
                                                    fullURL)
                              ELSE "",
                      st |-> IF should /\ ~force THEN "lookup" ELSE "network",
                      got |-> "none",
                      calls |-> 0,
                      from |-> "none",
                      set |-> FALSE,
                      warm |-> FALSE,
                      exp |-> 0,
                      ttl |-> 0,
                      obj |-> 0,
                      at |-> 0]]
    /\ UNCHANGED <<entries, heap, bufs, hdrs, hits, misses, maxSize, mu, now,
                   pc, loc, ret, swpc, ops, gets, writes, deleted, chain, run,
                   track, lifecycle, client, net, stats>>

\* the executor's Get on the request's key
RequestGet(p) ==
    /\ req[p] # Nil
    /\ req[p].st = "lookup"
    /\ CacheGet(p, req[p].key)
    /\ req' = [req EXCEPT
                 ![p].st = "getting",
                 ![p].warm = IF chain.st = "set"
                             THEN chain.key = req[p].key ELSE FALSE,
                 ![p].exp = IF chain.st = "set" THEN chain.exp ELSE 0]
    /\ UNCHANGED net

\* Get returned an entry: a response is built from it and returned, with no
\* network call
RequestHit(p) ==
    /\ req[p] # Nil
    /\ req[p].st = "getting"
    /\ pc[p] = "idle"
    /\ ret[p] # Nil
    /\ req' = [req EXCEPT ![p].st = "done", ![p].got = "hit",
                          ![p].from = "cache",
                          ![p].warm = @ /\ now <= req[p].exp,
                          ![p].exp = 0]
    /\ ret' = [ret EXCEPT ![p] = Nil]
    /\ UNCHANGED <<entries, heap, bufs, hdrs, hits, misses, maxSize, mu, now,
                   pc, loc, swpc, ops, gets, writes, deleted, chain, run,
                   track, lifecycle, client, net, stats>>

\* the network call: made at once when nothing is to be looked up, made
\* after a miss otherwise; it succeeds or fails
RequestNetwork(p, ok) ==
    /\ req[p] # Nil
    /\ \/ req[p].st = "network"
       \/ req[p].st = "getting" /\ pc[p] = "idle" /\ ret[p] = Nil
    /\ net < MaxOps
    /\ net' = net + 1
    /\ req' = [req EXCEPT
                 ![p].got = IF req[p].st = "getting" THEN "miss" ELSE "none",
                 ![p].calls = @ + 1,
                 ![p].warm = @ /\ now <= req[p].exp,
                 ![p].exp = 0,
                 ![p].from = IF ok THEN "network" ELSE "none",
                 ![p].st = IF ~ok THEN "failed"
                           ELSE IF req[p].should THEN "store" ELSE "done"]
    /\ UNCHANGED <<entries, heap, bufs, hdrs, hits, misses, maxSize, mu, now,
                   pc, loc, ret, swpc, ops, gets, writes, deleted, chain, run,
                   track, lifecycle, client, stats>>

\* after a successful call of a request to cache: compute the ttl and Set a
\* new entry built from the response
RequestSet(p, o) ==
    /\ req[p] # Nil
    /\ req[p].st = "store"
    /\ Fresh(p, o)
    /\ CacheSet(p, req[p].key, o, getCacheTTL(cacheConfig, req[p].options))
    /\ req' = [req EXCEPT ![p].st = "setting",
                          ![p].set = TRUE,
                          ![p].ttl = getCacheTTL(cacheConfig, req[p].options),
                          ![p].obj = o,
                          ![p].at = now]
    /\ UNCHANGED net

\* Set returned: the response of the network call is returned
RequestReturn(p) ==
    /\ req[p] # Nil
    /\ req[p].st = "setting"
    /\ pc[p] = "idle"
    /\ req' = [req EXCEPT ![p].st = "done", ![p].obj = 0, ![p].at = 0]
    /\ UNCHANGED <<entries, heap, bufs, hdrs, hits, misses, maxSize, mu, now,
                   pc, loc, ret, swpc, ops, gets, writes, deleted, chain, run,
                   track, lifecycle, client, net, stats>>

\* --------------------------------------------------------------- Promise
\* the methods a caller invokes on the promise, each with its own callback
Calls == {"Then", "Catch", "Finally"}

\* the caller's code: one, two or three of the methods, each at most once,
\* in any order
Programs ==
    {s \in UNION {[1..n -> Calls] : n \in 1..3} :
        \A i, j \in DOMAIN s : i # j => s[i] # s[j]}

\* what Client.Request returns: a response and a nil error, or a nil
\* response and an error
Results ==
    {[resp |-> [StatusCode |-> 200], err |-> Nil],
     [resp |-> Nil, err |-> [msg |-> "request failed"]]}

\* GetAsync (and PostAsync, PutAsync, DeleteAsync, HeadAsync, OptionsAsync,
\* PatchAsync, which differ in the request only): NewPromise, a goroutine
\* started on the request, the promise returned to the caller
GetAsync ==
    /\ maxSize = MaxCap
    /\ cacheConfig = Nil
    /\ policy = Nil
    /\ req = [p \in Procs |-> Nil]
    /\ net = 0
    /\ HTTPClient = NewHTTPClient
    /\ promise \in [response : {Nil}, err : {Nil}, then : {Nil},
                    catch : {Nil}, finally : {Nil}, done : {FALSE},
                    mu : {NoOne}, program : Programs, next : {1},
                    cpc : {"idle"}, fn : {Nil}, rpc : {"request"},
                    result : {Nil}, log : {<<>>}]

\* the promise's actions leave the cache alone
CacheUntouched ==
    UNCHANGED <<entries, heap, bufs, hdrs, hits, misses, maxSize, mu, now, pc,
                loc, ret, swpc, ops, gets, writes, deleted, chain, run, track,
                lifecycle, cacheConfig, policy, HTTPClient, executor,
                stats>>

\* the caller is about to call the method m
Calling(m) ==
    /\ promise # Nil
    /\ promise.cpc = "idle"
    /\ promise.next <= Len(promise.program)
    /\ promise.program[promise.next] = m

\* history: the callback f invoked with arg by the goroutine who
Invoke(log, f, arg, who) ==
    Append(log, [fn |-> f.fn, arg |-> arg, by |-> who])

\* Then, from taking the lock: call fn if a response is there and no error,
\* else keep fn
Then(fn) ==
    /\ Calling("Then")
    /\ promise.mu = NoOne
    /\ promise' =
          IF promise.response # Nil /\ promise.err = Nil
          THEN [promise EXCEPT !.mu = "caller", !.cpc = "then_unlock",
                   !.log = Invoke(@, fn, promise.response, "caller")]
          ELSE [promise EXCEPT !.mu = "caller", !.cpc = "then_unlock",
                   !.then = fn]
    /\ CacheUntouched

\* the deferred Unlock of Then or Catch, and the return
MethodUnlock ==
    /\ promise # Nil
    /\ promise.cpc \in {"then_unlock", "catch_unlock"}
    /\ promise' = [promise EXCEPT !.mu = NoOne, !.cpc = "idle",
                                  !.next = @ + 1]
    /\ CacheUntouched

\* Catch that keeps fn whether or not the error is already there
Catch_OnlyRegisters(fn) ==
    /\ Calling("Catch")
    /\ promise.mu = NoOne
    /\ promise' = [promise EXCEPT !.mu = "caller", !.cpc = "catch_unlock",
                                  !.catch = fn]
    /\ CacheUntouched

\* Catch, from taking the lock: call fn if an error is there, else keep fn
Catch(fn) ==
    /\ Calling("Catch")
    /\ promise.mu = NoOne
    /\ promise' =
          IF promise.err # Nil
          THEN [promise EXCEPT !.mu = "caller", !.cpc = "catch_unlock",
                   !.log = Invoke(@, fn, promise.err, "caller")]
          ELSE [promise EXCEPT !.mu = "caller", !.cpc = "catch_unlock",
                   !.catch = fn]
    /\ CacheUntouched

\* Finally that keeps fn whether or not the promise is already resolved
Finally_OnlyRegisters(fn) ==
    /\ Calling("Finally")
    /\ promise.mu = NoOne
    /\ promise' = [promise EXCEPT !.finally = fn, !.cpc = "finally_wait"]
    /\ CacheUntouched

\* Finally, its locked part: if a response or an error is there, unlock and
\* go on to call fn; else keep fn and unlock
Finally(fn) ==
    /\ Calling("Finally")
    /\ promise.mu = NoOne
    /\ promise' =
          IF promise.response # Nil \/ promise.err # Nil
          THEN [promise EXCEPT !.fn = fn, !.cpc = "finally_fn"]
          ELSE [promise EXCEPT !.finally = fn, !.cpc = "finally_wait"]
    /\ CacheUntouched

\* Finally calling fn itself, the lock released
FinallyCalls ==
    /\ promise # Nil
    /\ promise.cpc = "finally_fn"
    /\ promise' = [promise EXCEPT !.fn = Nil, !.cpc = "finally_wait",
                       !.log = Invoke(@, promise.fn, Nil, "caller")]
    /\ CacheUntouched

\* Finally's receive from done, which a closed channel lets through, and
\* the return
FinallyReturns ==
    /\ promise # Nil
    /\ promise.cpc = "finally_wait"
    /\ promise.done
    /\ promise' = [promise EXCEPT !.cpc = "idle", !.next = @ + 1]
    /\ CacheUntouched

\* the request of the helper's goroutine returns
RequestCompletes(result) ==
    /\ promise # Nil
    /\ promise.rpc = "request"
    /\ promise' = [promise EXCEPT !.result = result, !.rpc = "resolve"]
    /\ CacheUntouched

\* resolve, from taking the lock: set response and err, call the callbacks
\* kept so far (then on success, catch on error, finally always), close done
resolve ==
    /\ promise # Nil
    /\ promise.rpc = "resolve"
    /\ promise.mu = NoOne
    /\ LET resp == promise.result.resp
           err == promise.result.err
           l1 == IF promise.then # Nil /\ err = Nil
                 THEN Invoke(promise.log, promise.then, resp, "resolver")
                 ELSE promise.log
           l2 == IF promise.catch # Nil /\ err # Nil
                 THEN Invoke(l1, promise.catch, err, "resolver")
                 ELSE l1
           l3 == IF promise.finally # Nil
                 THEN Invoke(l2, promise.finally, Nil, "resolver")
                 ELSE l2
       IN promise' = [promise EXCEPT !.response = resp, !.err = err,
                          !.log = l3, !.done = TRUE, !.mu = "resolver",
                          !.rpc = "resolve_unlock"]
    /\ CacheUntouched

\* resolve's deferred Unlock; the goroutine ends
resolveUnlock ==
    /\ promise # Nil
    /\ promise.rpc = "resolve_unlock"
    /\ promise' = [promise EXCEPT !.mu = NoOne, !.rpc = "exit"]
    /\ CacheUntouched

\* the caller's goroutine
CallerStep ==
    \/ Then([fn |-> "onThen"])
    \/ Catch([fn |-> "onCatch"])
    \/ MethodUnlock
    \/ Finally([fn |-> "onFinally"])
    \/ FinallyCalls
    \/ FinallyReturns

\* the helper's goroutine once its request has returned
ResolverStep == resolve \/ resolveUnlock

PromiseNext ==
    \/ Then([fn |-> "onThen"])
    \/ Catch([fn |-> "onCatch"])
    \/ MethodUnlock
    \/ Finally([fn |-> "onFinally"])
    \/ FinallyCalls
    \/ FinallyReturns
    \/ \E result \in Results : RequestCompletes(result)
    \/ resolve
    \/ resolveUnlock

PromiseInit == NewMemoryCache({}) /\ GetAsync

\* a promise, its caller and its request, interleaved in every way
PromiseSpec == PromiseInit /\ [][PromiseNext]_vars

\* the same with both goroutines scheduled: a step of the caller or of the
\* resolving goroutine that stays possible is taken
PromiseFairSpec ==
    PromiseInit /\ [][PromiseNext]_vars
    /\ WF_vars(CallerStep) /\ WF_vars(ResolverStep)

\* RequestAsync: the request is made before the function returns, and the
\* promise is built as a literal holding the response and the error: done
\* is the nil channel, which is never closed, and no goroutine resolves it
RequestAsync ==
    /\ maxSize = MaxCap
    /\ cacheConfig = Nil
    /\ policy = Nil
    /\ req = [p \in Procs |-> Nil]
    /\ net = 0
    /\ HTTPClient = NewHTTPClient
    /\ promise \in {[response |-> r.resp, err |-> r.err, then |-> Nil,
                     catch |-> Nil, finally |-> Nil, done |-> FALSE,
                     mu |-> NoOne, program |-> s, next |-> 1,
                     cpc |-> "idle", fn |-> Nil, rpc |-> "exit",
                     result |-> r, log |-> <<>>] :
                       r \in Results, s \in Programs}

\* a promise returned by any of the Async helpers
AsyncInit == NewMemoryCache({}) /\ (GetAsync \/ RequestAsync)

\* its caller and, where there is one, its resolving goroutine, both
\* scheduled
AsyncFairSpec ==
    /\ AsyncInit
    /\ [][PromiseNext]_vars
    /\ WF_vars(CallerStep)
    /\ WF_vars(ResolverStep)

\* ------------------------------------- concurrent requests on one Client
\* the RequestOptions the callers pass: Timeout in ms, MaxRedirects, Proxy
SendOptions ==
    [Timeout : {0, 500, 2000}, MaxRedirects : {0, 3},
     Proxy : {NoProxy, "proxyA", "proxyB"}]

\* the defaults Request fills in for zero fields
Defaults(options) ==
    [options EXCEPT
        !.Timeout = IF @ = 0 THEN 1000 ELSE @,
        !.MaxRedirects = IF @ = 0 THEN 21 ELSE @]

\* defaultClient, and a MemoryCache nobody uses
defaultClient ==
    /\ NewMemoryCache({})
    /\ maxSize = MaxCap
    /\ cacheConfig = Nil
    /\ policy = Nil
    /\ req = [p \in Procs |-> Nil]
    /\ net = 0
    /\ promise = Nil
    /\ HTTPClient = NewHTTPClient

\* what a step of Client.Request leaves alone besides req and HTTPClient
OnlyClient ==
    UNCHANGED <<entries, heap, bufs, hdrs, hits, misses, maxSize, mu, now, pc,
                loc, ret, swpc, gets, writes, deleted, chain, run, track,
                lifecycle, cacheConfig, policy, promise, net, stats>>

\* a goroutine calls c.Request(options): defaults, then the request is built
ClientRequest(p, options) ==
    /\ Finished(p)
    /\ ops < MaxOps
    /\ ops' = ops + 1
    /\ req' = [req EXCEPT ![p] = [st |-> "timeout",
                                  options |-> Defaults(options),
                                  do |-> Nil]]
    /\ UNCHANGED HTTPClient
    /\ OnlyClient

\* c.HTTPClient.Timeout = time.Duration(options.Timeout) * time.Millisecond
SetTimeout(p) ==
    /\ req[p] # Nil
    /\ IF req[p] # Nil THEN req[p].st = "timeout" ELSE FALSE
    /\ HTTPClient' = [HTTPClient EXCEPT !.Timeout = req[p].options.Timeout]
    /\ req' = [req EXCEPT ![p].st = "redirect"]
    /\ UNCHANGED ops
    /\ OnlyClient

\* if options.MaxRedirects > 0 { c.HTTPClient.CheckRedirect = a closure that
\* refuses more than options.MaxRedirects redirects }
SetCheckRedirect(p) ==
    /\ req[p] # Nil
    /\ IF req[p] # Nil THEN req[p].st = "redirect" ELSE FALSE
    /\ HTTPClient' = IF req[p].options.MaxRedirects > 0
                     THEN [HTTPClient EXCEPT
                             !.CheckRedirect = req[p].options.MaxRedirects]
                     ELSE HTTPClient
    /\ req' = [req EXCEPT ![p].st = "proxy"]
    /\ UNCHANGED ops
    /\ OnlyClient

\* if options.Proxy != nil { c.HTTPClient.Transport = a transport through
\* that proxy; defer the reset of the field }
SetTransport(p) ==
    /\ req[p] # Nil
    /\ IF req[p] # Nil THEN req[p].st = "proxy" ELSE FALSE
    /\ HTTPClient' = IF req[p].options.Proxy # NoProxy
                     THEN [HTTPClient EXCEPT
                             !.Transport = req[p].options.Proxy]
                     ELSE HTTPClient
    /\ req' = [req EXCEPT ![p].st = "do"]
    /\ UNCHANGED ops
    /\ OnlyClient

\* c.HTTPClient.Do(req): the network call is made under the settings the
\* shared http.Client has at that moment
Do(p) ==
    /\ req[p] # Nil
    /\ IF req[p] # Nil THEN req[p].st = "do" ELSE FALSE
    /\ req' = [req EXCEPT ![p].st = "sent", ![p].do = HTTPClient]
    /\ UNCHANGED <<HTTPClient, ops>>
    /\ OnlyClient

\* Request returns; the deferred func of a request with a Proxy sets
\* c.HTTPClient.Transport = nil
RequestReturns(p) ==
    /\ req[p] # Nil
    /\ IF req[p] # Nil THEN req[p].st = "sent" ELSE FALSE
    /\ HTTPClient' = IF req[p].options.Proxy # NoProxy
                     THEN [HTTPClient EXCEPT !.Transport = NoProxy]
                     ELSE HTTPClient
    /\ req' = [req EXCEPT ![p].st = "done"]
    /\ UNCHANGED ops
    /\ OnlyClient

\* two goroutines sending requests through the same client
SharedClientNext ==
    \/ \E p \in Procs, options \in SendOptions : ClientRequest(p, options)
    \/ \E p \in Procs : SetTimeout(p)
    \/ \E p \in Procs : SetCheckRedirect(p)
    \/ \E p \in Procs : SetTransport(p)
    \/ \E p \in Procs : Do(p)
    \/ \E p \in Procs : RequestReturns(p)

SharedClientSpec == defaultClient /\ [][SharedClientNext]_vars

\* ------------------------------------------------------------------ Next
\* the cache under concurrent callers and the cleanup goroutine
Next ==
    \/ Tick
    \/ \E p \in Procs, k \in Keys, o \in Objs, ttl \in TTLs : Set(p, k, o, ttl)
    \/ \E p \in Procs : SetUnlock(p)
    \/ \E p \in Procs, k \in Keys : Get(p, k)
    \/ \E p \in Procs : GetRUnlock(p)
    \/ \E p \in Procs : GetExpiry(p)
    \/ \E p \in Procs : GetDelete(p)
    \/ \E p \in Procs : GetMiss(p)
    \/ \E p \in Procs : GetHit(p)
    \/ \E p \in Procs, k \in Keys : Delete(p, k)
    \/ \E p \in Procs : DeleteUnlock(p)
    \/ \E p \in Procs : Clear(p)
    \/ \E p \in Procs : ClearUnlock(p)
    \/ cleanupExpired
    \/ cleanupUnlock

\* a new cache used directly by its callers
Direct(histories) == NewMemoryCache(histories) /\ NoClient

Init == Direct({})
Spec == Init /\ [][Next]_vars

\* the same, remembering the last Set while the Get that follows it runs
SetGetSpec == Direct({"chain"}) /\ [][Next]_vars

\* the same, remembering the Set that has just returned early
NoOpSpec == Direct({"noop"}) /\ [][Next]_vars

\* the same, remembering that the store was cleared and which keys were
\* not set since
ClearsSpec == Direct({"cleared"}) /\ [][Next]_vars

\* the same, remembering which keys were deleted and not set since
DeletesSpec == Direct({"deleted"}) /\ [][Next]_vars

\* callers that also write to the entries they hold: the ones Get returned
\* and the ones they passed to Set
CallersNext ==
    \/ Next
    \/ \E p \in Procs : MutateRetBody(p)
    \/ \E p \in Procs : MutateRetHeaders(p)
    \/ \E p \in Procs, f \in Fields : MutateRetField(p, f)
    \/ \E p \in Procs, o \in Objs, f \in Fields : MutateEntry(p, o, f)

CallersSpec == Direct({"ret", "writes"}) /\ [][CallersNext]_vars

\* callers that also close the cache, and the cleanup loop's exit; Close
\* reads no key and no entry, so the other calls are made on one key with
\* one entry object and one ttl
LifecycleNext ==
    \/ Tick
    \/ \E p \in Procs : Set(p, "a", 1, 1)
    \/ \E p \in Procs : SetUnlock(p)
    \/ \E p \in Procs : Get(p, "a")
    \/ \E p \in Procs : GetRUnlock(p)
    \/ \E p \in Procs : GetExpiry(p)
    \/ \E p \in Procs : GetDelete(p)
    \/ \E p \in Procs : GetMiss(p)
    \/ \E p \in Procs : GetHit(p)
    \/ \E p \in Procs : Delete(p, "a")
    \/ \E p \in Procs : DeleteUnlock(p)
    \/ \E p \in Procs : Clear(p)
    \/ \E p \in Procs : ClearUnlock(p)
    \/ cleanupExpired
    \/ cleanupUnlock
    \/ \E p \in Procs : CloseCall(p)
    \/ \E p \in Procs : CloseLock(p)
    \/ \E p \in Procs : CloseUnlock(p)
    \/ cleanupStop

\* Stats called while the other goroutines call Get, Set, Delete and Clear
\* on one key
StatsNext ==
    \/ Tick
    \/ \E p \in Procs : Set(p, "a", 1, 1)
    \/ \E p \in Procs : SetUnlock(p)
    \/ \E p \in Procs : Get(p, "a")
    \/ \E p \in Procs : GetRUnlock(p)
    \/ \E p \in Procs : GetExpiry(p)
    \/ \E p \in Procs : GetDelete(p)
    \/ \E p \in Procs : GetMiss(p)
    \/ \E p \in Procs : GetHit(p)
    \/ \E p \in Procs : Delete(p, "a")
    \/ \E p \in Procs : DeleteUnlock(p)
    \/ \E p \in Procs : Clear(p)
    \/ \E p \in Procs : ClearUnlock(p)
    \/ \E p \in Procs : StatsCall(p)
    \/ \E p \in Procs : StatsRLock(p)
    \/ \E p \in Procs : StatsRUnlock(p)
    \/ \E p \in Procs : StatsHits(p)
    \/ \E p \in Procs : StatsMisses(p)

StatsSpec == Direct({}) /\ [][StatsNext]_vars

\* the steps a goroutine takes inside a call it has made
Step(p) ==
    \/ SetUnlock(p)
    \/ GetRUnlock(p)
    \/ GetExpiry(p)
    \/ GetDelete(p)
    \/ GetMiss(p)
    \/ GetHit(p)
    \/ DeleteUnlock(p)
    \/ ClearUnlock(p)
    \/ CloseLock(p)
    \/ CloseUnlock(p)

\* every goroutine inside a call is scheduled again, the cleanup goroutine
\* too, and a goroutine waiting for the lock gets it once it is free
LifecycleSpec ==
    /\ Direct({})
    /\ [][LifecycleNext]_vars
    /\ \A p \in Procs : WF_vars(Step(p))
    /\ WF_vars(cleanupUnlock)
    /\ WF_vars(cleanupStop)

\* the policy functions, applied to every request under every configuration
PolicyNext == \E options \in RequestOptions, fullURL \in URLs :
                  PolicyCall(options, fullURL)

PolicyInit == NewMemoryCache({}) /\ NewClientWithCache

PolicySpec == PolicyInit /\ [][PolicyNext]_vars

\* concurrent requests through a client, and the clock
ClientNext ==
    \/ Tick
    \/ \E p \in Procs, options \in ClientRequests :
          Request(p, options, "/a")
    \/ \E p \in Procs : RequestGet(p)
    \/ \E p \in Procs : GetRUnlock(p)
    \/ \E p \in Procs : GetExpiry(p)
    \/ \E p \in Procs : GetDelete(p)
    \/ \E p \in Procs : DeleteUnlock(p)
    \/ \E p \in Procs : GetMiss(p)
    \/ \E p \in Procs : GetHit(p)
    \/ \E p \in Procs : RequestHit(p)
    \/ \E p \in Procs, ok \in BOOLEAN : RequestNetwork(p, ok)
    \/ \E p \in Procs, o \in Objs : RequestSet(p, o)
    \/ \E p \in Procs : SetUnlock(p)
    \/ \E p \in Procs : RequestReturn(p)

ClientInit == NewMemoryCache({"ret"}) /\ NewClient

ClientSpec == ClientInit /\ [][ClientNext]_vars

\* the requests that enable caching
WarmRequests ==
    {o \in ClientRequests : o.Method = "GET" /\ o.Cache.Enabled = Bool(TRUE)}

\* concurrent requests that enable caching, and the clock
WarmNext ==
    \/ Tick
    \/ \E p \in Procs, options \in WarmRequests :
          Request(p, options, "/a")
    \/ \E p \in Procs : RequestGet(p)
    \/ \E p \in Procs : GetRUnlock(p)
    \/ \E p \in Procs : GetExpiry(p)
    \/ \E p \in Procs : GetDelete(p)
    \/ \E p \in Procs : DeleteUnlock(p)
    \/ \E p \in Procs : GetMiss(p)
    \/ \E p \in Procs : GetHit(p)
    \/ \E p \in Procs : RequestHit(p)
    \/ \E p \in Procs, ok \in BOOLEAN : RequestNetwork(p, ok)
    \/ \E p \in Procs, o \in Objs : RequestSet(p, o)
    \/ \E p \in Procs : SetUnlock(p)
    \/ \E p \in Procs : RequestReturn(p)

\* the same, recording each Set and the Get that follows it
WarmInit == NewMemoryCache({"ret", "chain"}) /\ NewClient

WarmSpec == WarmInit /\ [][WarmNext]_vars

\* clients and caching requests with every sign of DefaultTTL and TTL
TTLConfigs ==
    [Cache : {[store |-> "MemoryCache"]}, DefaultTTL : {-1, 0, 2},
     KeyFunc : {Nil}, CacheableMethods : {Nil}]
TTLRequests ==
    [Method : {"GET"}, Headers : {"h0"},
     Cache : [Enabled : {Bool(TRUE)}, TTL : {-1, 0, 1},
              ForceRefresh : {FALSE}, CustomKey : {""}]]

NewTTLClient ==
    /\ maxSize = MaxCap
    /\ cacheConfig \in TTLConfigs
    /\ policy = Nil
    /\ req = [p \in Procs |-> Nil]
    /\ net = 0
    /\ promise = Nil
    /\ HTTPClient = NewHTTPClient

\* concurrent caching requests with those ttls, and the clock
TTLNext ==
    \/ Tick
    \/ \E p \in Procs, options \in TTLRequests :
          Request(p, options, "/a")
    \/ \E p \in Procs : RequestGet(p)
    \/ \E p \in Procs : GetRUnlock(p)
    \/ \E p \in Procs : GetExpiry(p)
    \/ \E p \in Procs : GetDelete(p)
    \/ \E p \in Procs : DeleteUnlock(p)
    \/ \E p \in Procs : GetMiss(p)
    \/ \E p \in Procs : GetHit(p)
    \/ \E p \in Procs : RequestHit(p)
    \/ \E p \in Procs, ok \in BOOLEAN : RequestNetwork(p, ok)
    \/ \E p \in Procs, o \in Objs : RequestSet(p, o)
    \/ \E p \in Procs : SetUnlock(p)
    \/ \E p \in Procs : RequestReturn(p)

TTLInit == NewMemoryCache({"ret"}) /\ NewTTLClient

TTLSpec == TTLInit /\ [][TTLNext]_vars

\* the cache operations alone, recording the ttl of the Set that has just
\* stored and not yet returned
StampSpec == Direct({"ttl"}) /\ [][Next]_vars

\* callers that also pass a nil entry to Set
NilEntryNext ==
    \/ Next
    \/ \E p \in Procs, k \in Keys, ttl \in TTLs : SetNilEntry(p, k, ttl)
    \/ \E p \in Procs : SetPanics(p)

NilEntrySpec == Direct({}) /\ [][NilEntryNext]_vars

\* the cache under its callers, remembering the store as the Set in progress
\* found it
EvictSpec == Direct({"evict"}) /\ [][Next]_vars

\* the same, remembering the store as the sweep in progress found it
SweepSpec == Direct({"sweep"}) /\ [][Next]_vars

\* callers that only set and get, and the clock
StoreLoadNext ==
    \/ Tick
    \/ \E p \in Procs, k \in Keys, o \in Objs, ttl \in TTLs : Set(p, k, o, ttl)
    \/ \E p \in Procs : SetUnlock(p)
    \/ \E p \in Procs, k \in Keys : Get(p, k)
    \/ \E p \in Procs : GetRUnlock(p)
    \/ \E p \in Procs : GetExpiry(p)
    \/ \E p \in Procs : GetDelete(p)
    \/ \E p \in Procs : DeleteUnlock(p)
    \/ \E p \in Procs : GetMiss(p)
    \/ \E p \in Procs : GetHit(p)

\* the same, remembering the last Set and the Get that follows it
StoreLoadSpec == Direct({"chain"}) /\ [][StoreLoadNext]_vars

\* every operation of the cache called concurrently on one key
ReturnsNext ==
    \/ LifecycleNext
    \/ \E p \in Procs : StatsCall(p)
    \/ \E p \in Procs : StatsRLock(p)
    \/ \E p \in Procs : StatsRUnlock(p)
    \/ \E p \in Procs : StatsHits(p)
    \/ \E p \in Procs : StatsMisses(p)

\* the same with every goroutine inside a call scheduled again, a goroutine
\* waiting for the lock getting it once it is free, and the cleanup
\* goroutine releasing the lock it took
ReturnsFairSpec ==
    /\ Direct({})
    /\ [][ReturnsNext]_vars
    /\ \A p \in Procs :
          WF_vars(Step(p) \/ StatsRLock(p) \/ StatsRUnlock(p)
                    \/ StatsHits(p) \/ StatsMisses(p))
    /\ WF_vars(cleanupUnlock)

\* callers that close the cache and go on using it, remembering the last Set
\* and the Get that follows it
ClosedSpec == Direct({"chain"}) /\ [][LifecycleNext]_vars

\* entries that are set and never read: callers that store their entry
\* objects under two keys, the clock, and the cleanup loop of a cache that
\* is not closed
ReclaimNext ==
    \/ Tick
    \/ \E p \in Procs, k \in {"a", "b"}, o \in Objs : Set(p, k, o, 1)
    \/ \E p \in Procs : SetUnlock(p)
    \/ cleanupLoop
    \/ cleanupUnlock

\* the same with time passing, every Set running to its end and the cleanup
\* loop scheduled
ReclaimFairSpec ==
    Direct({"writes"}) /\ [][ReclaimNext]_vars
    /\ WF_vars(Tick)
    /\ WF_vars(\E p \in Procs : SetUnlock(p))
    /\ WF_vars(cleanupLoop)
    /\ WF_vars(cleanupUnlock)

\* the cache operations alone, recording what each Set wrote and the order
\* of the insertions
WritesSpec == Direct({"writes", "run"}) /\ [][Next]_vars

\* ---------------------------------------------------------------- claims
InGet(p) == pc[p] \in {"get_runlock", "get_expiry", "get_delete",
                       "get_del_unlock", "get_miss", "get_hit"}
AtCapacity == maxSize > 0 /\ Cardinality(DOMAIN entries) >= maxSize
NoneExpired == \A j \in DOMAIN entries : ~IsExpired(heap[entries[j]])

\* C1: a Set(key, entry, ttl > 0) followed at once by Get(key), with no
\* other operation in between and the clock not past the stamped expiry,
\* finds the key and returns the Body, StatusCode, Headers and CreatedAt
\* that were passed to Set.
C1_GetAfterSet ==
    \A p \in Procs :
        (chain.st = "getting" /\ chain.proc = p /\ now <= chain.exp) =>
            /\ pc[p] \in {"get_runlock", "get_expiry", "get_hit"}
            /\ loc[p].exists
            /\ Supplied(View(loc[p].copy)) = chain.snap

C1_Witness ==
    /\ chain.st = "getting"
    /\ pc[chain.proc] = "get_hit"
    /\ now <= chain.exp
    /\ now > 1

\* C8: a Set with ttl <= 0 changes nothing: when it has returned, the
\* stored entries, the entry objects (so no ExpiresAt is stamped), the
\* counters and the lock are what they were when it was called, and nothing
\* was evicted, whatever the key and however full the store.
C8_NonPositiveTTLIsNoOp ==
    chain.st = "noop" =>
        <<entries, heap, bufs, hdrs, hits, misses, mu, pc>> = chain.before

C8_Witness ==
    /\ chain.st = "noop"
    /\ chain.key \in DOMAIN entries
    /\ AtCapacity

\* C9: every Get call adds one to exactly one counter: Hits when it returns
\* an entry, Misses when it returns absent; Hits + Misses is the number of
\* Get calls that have returned, and no other step changes a counter.
C9_OneCountPerGet ==
    /\ [](hits + misses = gets - Cardinality({p \in Procs : InGet(p)}))
    /\ [][/\ \A p \in Procs :
               pc[p] = "get_hit" /\ pc'[p] = "idle" =>
                   hits' = hits + 1 /\ misses' = misses
          /\ \A p \in Procs :
               pc[p] = "get_miss" /\ pc'[p] = "idle" =>
                   misses' = misses + 1 /\ hits' = hits
          /\ (hits' # hits \/ misses' # misses) =>
                 \E p \in Procs : pc[p] \in {"get_hit", "get_miss"} /\ pc'[p] = "idle"
         ]_vars

C9_Witness ==
    /\ hits >= 1
    /\ misses >= 1
    /\ gets = hits + misses

\* C10: a Get(key) that starts after Delete(key), with no Set on the key in
\* between, returns absent; Delete removes nothing but its own key and
\* changes nothing when the key is not stored.
C10_DeleteThenAbsent ==
    /\ [](/\ \A k \in Keys : deleted[k] # "no" => k \notin DOMAIN entries
          /\ \A p \in Procs : InGet(p) /\ loc[p].afterDel # "no" =>
                 pc[p] \in {"get_runlock", "get_miss"} /\ ~loc[p].exists)
    /\ [][\A p \in Procs, k \in Keys :
            Delete(p, k) =>
                /\ entries' = Remove(entries, k)
                /\ UNCHANGED <<heap, bufs, hdrs, hits, misses>>]_vars

C10_Witness ==
    \E p \in Procs :
        /\ pc[p] = "get_miss"
        /\ loc[p].afterDel = "present"

\* C2: Get never returns an expired entry: the entry it returns was not
\* expired at Get's expiry check, and a Get made after the ttl of every Set
\* on its key has elapsed returns absent.
C2_NeverReturnsExpired ==
    \A p \in Procs :
        pc[p] = "get_hit" =>
            /\ loc[p].checked <= loc[p].copy.ExpiresAt
            /\ ~loc[p].late

\* C3: whatever the interleaving of Set, Get, Delete, Clear and the sweep,
\* the entry a Get(key) returns is, in all five fields, the value written
\* by one Set on that key.
C3_ReturnsWhatOneSetWrote ==
    \A p \in Procs :
        pc[p] = "get_hit" => View(loc[p].copy) \in writes[loc[p].key]

\* C4: whatever a caller does to an entry Get returned (assign a field,
\* write the bytes of its Body, write its Headers), a later Get of any key
\* returns what it would have returned before.
C4_ReturnedEntryIsIndependent ==
    [][(\E p \in Procs :
          \/ MutateRetBody(p)
          \/ MutateRetHeaders(p)
          \/ \E f \in Fields : MutateRetField(p, f))
       => StoreView' = StoreView]_vars

\* C5: with MaxSize = N > 0 the store never holds more than N entries.
C5_SizeWithinMaxSize ==
    maxSize > 0 => Cardinality(DOMAIN entries) <= maxSize

\* C6: a Set that inserts a new key into a store at capacity with no expired
\* entry removes exactly one stored entry, one with the earliest CreatedAt,
\* and leaves every other stored entry in place.
C6_EvictsOneOldest ==
    [][\A p \in Procs, k \in Keys, o \in Objs, ttl \in TTLs :
         (/\ ttl > 0
          /\ AtCapacity
          /\ NoneExpired
          /\ k \notin DOMAIN entries
          /\ Set(p, k, o, ttl))
         => \E victim \in DOMAIN entries :
              /\ \A j \in DOMAIN entries :
                   heap[entries[victim]].CreatedAt <= heap[entries[j]].CreatedAt
              /\ DOMAIN entries' = ((DOMAIN entries) \ {victim}) \cup {k}
              /\ \A j \in (DOMAIN entries) \ {victim} : entries'[j] = entries[j]
      ]_vars

\* C7: with MaxSize = N, after N+1 distinct keys were inserted one after
\* another at strictly increasing times, none expired, the first key is
\* gone and the other N are stored.  (Stated for first N keys that are not
\* the empty string, which evictOne never deletes as the oldest.)
C7_FirstInsertedIsEvicted ==
    (/\ run.ok
     /\ maxSize > 0
     /\ Len(run.keys) = maxSize + 1
     /\ \A i \in 1..maxSize : run.keys[i] # "") =>
        DOMAIN entries = {run.keys[i] : i \in 2..Len(run.keys)}

\* C11: Clear removes every entry, so the size is 0 and a Get that starts
\* after it, with no Set on its key in between, returns absent; Clear
\* leaves the Hits and Misses counters as they were.
C11_ClearEmptiesKeepsCounters ==
    /\ [](/\ \A k \in Keys : deleted[k] # "no" => k \notin DOMAIN entries
          /\ \A p \in Procs : InGet(p) /\ loc[p].afterDel # "no" =>
                 pc[p] \in {"get_runlock", "get_miss"} /\ ~loc[p].exists)
    /\ [][\A p \in Procs :
            Clear(p) =>
                /\ Cardinality(DOMAIN entries') = 0
                /\ UNCHANGED <<hits, misses>>]_vars

C11_Witness ==
    \E p \in Procs :
        /\ pc[p] = "get_miss"
        /\ loc[p].afterDel = "cleared"

\* C12: however many times and however concurrently Close is called,
\* close(c.stopChan) is executed exactly once (by the first Close, never
\* again), no Close panics, and every Close that was called returns.
C12_CloseIsIdempotent ==
    /\ [](/\ closes <= 1
          /\ stopped <=> closes = 1
          /\ stopChan = "closed" <=> closes = 1
          /\ closeCalls >= 1 => closes = 1
          /\ \A p \in Procs : pc[p] # "panicked")
    /\ \A p \in Procs : (pc[p] = "close_lock") ~> (pc[p] = "idle")

C12_Witness ==
    /\ closeCalls >= 2
    /\ closes = 1
    /\ swpc = "stopped"

\* C13: shouldCacheRequest returns true exactly when there is a CacheConfig
\* with a store, the request's cache options have Enabled set to true, and
\* the method is in the list of cacheable methods (GET alone by default,
\* letter case ignored); otherwise false, whatever DefaultTTL, TTL,
\* ForceRefresh and CustomKey are.
C13_ShouldCacheIsOptIn ==
    policy # Nil /\ policy.st = "done" =>
        (policy.should <=>
            /\ cacheConfig # Nil
            /\ cacheConfig.Cache # Nil
            /\ policy.options.Cache # Nil
            /\ policy.options.Cache.Enabled = Bool(TRUE)
            /\ Fold[policy.options.Method] \in
                  (IF cacheConfig.CacheableMethods = Nil
                   THEN {"get"}
                   ELSE {Fold[cacheConfig.CacheableMethods.list[i]] :
                           i \in 1..Len(cacheConfig.CacheableMethods.list)}))

C13_Witness ==
    /\ policy # Nil
    /\ policy.st = "done"
    /\ policy.should
    /\ policy.options.Method = "POST"
    /\ policy.options.Cache.ForceRefresh
    /\ cacheConfig.DefaultTTL = 0

\* C14: the key of a request is its CustomKey when one is set, whatever the
\* configured KeyFunc; without a CustomKey it is the configured KeyFunc
\* applied to (method, full URL, headers); without either it is
\* method + ":" + full URL.
C14_KeyPrecedence ==
    policy # Nil /\ policy.st = "done" /\ cacheConfig # Nil =>
        LET o == policy.options
            custom == o.Cache # Nil /\ o.Cache.CustomKey # ""
        IN  /\ custom => policy.key.s = o.Cache.CustomKey
            /\ ~custom /\ cacheConfig.KeyFunc # Nil =>
                   policy.key.s = KeyFunc(o.Method, policy.fullURL, o.Headers)
            /\ ~custom /\ cacheConfig.KeyFunc = Nil =>
                   policy.key.s = o.Method \o ":" \o policy.fullURL

C14_Witness ==
    /\ policy # Nil
    /\ policy.st = "done"
    /\ cacheConfig # Nil
    /\ cacheConfig.KeyFunc # Nil
    /\ policy.options.Cache # Nil
    /\ policy.options.Cache.CustomKey = "k"
    /\ policy.key.s = "k"

\* C16: isMethodCacheable tells whether the method, letter case ignored, is
\* one of CacheableMethods; with no CacheableMethods configured it is true
\* for GET in any letter case and false for POST, and shouldCacheRequest is
\* then false for a POST that enables caching.
C16_MethodAllowList ==
    policy # Nil /\ policy.st = "done" /\ cacheConfig # Nil =>
        LET method == policy.options.Method
            list == cacheConfig.CacheableMethods
        IN  /\ list # Nil =>
                  (policy.cacheable.v <=>
                      \E i \in 1..Len(list.list) :
                          Fold[list.list[i]] = Fold[method])
            /\ list = Nil =>
                  /\ policy.cacheable.v <=> method \in {"GET", "get"}
                  /\ method = "POST" => ~policy.should

C16_Witness ==
    /\ policy # Nil
    /\ policy.st = "done"
    /\ cacheConfig # Nil
    /\ cacheConfig.Cache # Nil
    /\ cacheConfig.CacheableMethods = Nil
    /\ policy.options.Method = "POST"
    /\ policy.options.Cache # Nil
    /\ policy.options.Cache.Enabled = Bool(TRUE)
    /\ ~policy.cacheable.v
    /\ ~policy.should

\* a request the policy does not cache; among them every request without
\* cache options or whose Enabled is unset or false
NotToCache(r) ==
    \/ ~r.should
    \/ r.options.Cache = Nil
    \/ r.options.Cache.Enabled # Bool(TRUE)

\* C19: a request for which shouldCache is false (a GET with all cache
\* options unset on a configured client and a CacheDisabled request among
\* them) goes to the network call and returns only after it; it calls
\* neither Get nor Set, and its steps leave the stored entries, the entry
\* objects, Hits and Misses as they are.
C19_UncachedRequestLeavesStore ==
    /\ [](\A p \in Procs : req[p] # Nil /\ NotToCache(req[p]) =>
             /\ req[p].st \in {"network", "done", "failed"}
             /\ pc[p] = "idle"
             /\ req[p].got = "none"
             /\ req[p].st = "done" =>
                    req[p].calls = 1 /\ req[p].from = "network")
    /\ [][\A p \in Procs :
             req'[p] # req[p] /\ NotToCache(req'[p]) =>
                 UNCHANGED <<entries, heap, bufs, hdrs, hits, misses>>]_vars

C19_Witness ==
    \E p \in Procs :
        /\ req[p] # Nil
        /\ req[p].st = "done"
        /\ req[p].options.Method = "GET"
        /\ req[p].options.Cache # Nil
        /\ req[p].options.Cache.Enabled = Nil
        /\ ~req[p].options.Cache.ForceRefresh
        /\ cacheConfig # Nil
        /\ cacheConfig.Cache # Nil
        /\ cacheConfig.DefaultTTL = 2
        /\ Cardinality(DOMAIN entries) = 1
        /\ hits = 1

\* a request whose options set ForceRefresh
Forced(r) ==
    IF r = Nil THEN FALSE
    ELSE IF r.options.Cache = Nil THEN FALSE
    ELSE r.options.Cache.ForceRefresh

Cached(r) ==
    IF r = Nil THEN FALSE ELSE r.should /\ ~Forced(r)

\* C18: a request to cache that does not force a refresh always looks its
\* key up first; after a hit it returns the cached response with no network
\* call; the network call is made only after a miss, and its successful
\* result is passed to Set under the same key, stored with ExpiresAt = now +
\* the effective ttl when that is positive; a request whose lookup of that
\* key follows such a Set directly and that has its answer from Get no later
\* than the stamped expiry is a hit and makes no network call.
C18_HitSkipsNetworkMissStores ==
    /\ [](\A p \in Procs : Cached(req[p]) =>
             /\ req[p].calls > 0 => req[p].got = "miss"
             /\ req[p].got = "hit" =>
                    req[p].st = "done" /\ req[p].from = "cache"
             /\ req[p].st \in {"store", "setting"} => req[p].calls = 1
             /\ req[p].st = "done" =>
                    /\ req[p].got \in {"hit", "miss"}
                    /\ req[p].got = "miss" =>
                           req[p].set /\ req[p].from = "network"
             /\ req[p].st = "getting" /\ req[p].warm /\ now <= req[p].exp =>
                    /\ pc[p] \in {"get_runlock", "get_expiry", "get_hit",
                                  "idle"}
                    /\ pc[p] = "idle" => ret[p] # Nil
             /\ req[p].st # "getting" /\ req[p].warm =>
                    /\ req[p].st = "done"
                    /\ req[p].got = "hit"
                    /\ req[p].calls = 0)
    /\ [][\A p \in Procs :
             Cached(req[p]) /\ req[p].st = "store" /\ req'[p].st = "setting"
             /\ req'[p].ttl > 0 =>
                 /\ req'[p].key \in DOMAIN entries'
                 /\ entries'[req'[p].key] = req'[p].obj
                 /\ heap'[req'[p].obj].ExpiresAt =
                       now + (IF req[p].options.Cache.TTL > 0
                              THEN req[p].options.Cache.TTL
                              ELSE cacheConfig.DefaultTTL)]_vars

C18_Witness ==
    \E p \in Procs :
        /\ Cached(req[p])
        /\ req[p].warm
        /\ req[p].st = "done"
        /\ req[p].got = "hit"
        /\ req[p].calls = 0
        /\ now > 1
        /\ net = 1
        /\ misses = 1
        /\ hits = 1

\* C15: the ttl a request's response is Set with is the request's TTL when
\* that is positive and the configured DefaultTTL otherwise; when neither is
\* positive that ttl is not positive, the Set changes nothing in the store
\* and returns at once, and the request returns the response of its network
\* call.
C15_EffectiveTTL ==
    /\ [](\A p \in Procs : req[p] # Nil /\ req[p].set =>
             LET own == req[p].options.Cache.TTL
                 default == cacheConfig.DefaultTTL
             IN  /\ own > 0 => req[p].ttl = own
                 /\ own <= 0 => req[p].ttl = default
                 /\ own <= 0 /\ default <= 0 =>
                        req[p].ttl <= 0 /\ pc[p] = "idle"
                 /\ req[p].st \in {"setting", "done"}
                 /\ req[p].st = "done" =>
                        req[p].from = "network" /\ req[p].calls = 1)
    /\ [][\A p \in Procs :
             req[p] # Nil /\ req[p].st = "store" /\ req'[p].st = "setting"
             /\ req'[p].ttl <= 0 =>
                 /\ UNCHANGED <<entries, heap, bufs, hdrs, hits, misses, mu>>
                 /\ pc'[p] = "idle"]_vars

C15_Witness ==
    \E p \in Procs :
        /\ req[p] # Nil
        /\ req[p].set
        /\ req[p].st = "done"
        /\ req[p].options.Cache.TTL = 0
        /\ req[p].ttl = -1
        /\ req[p].from = "network"
        /\ req[p].got = "miss"
        /\ Cardinality(DOMAIN entries) = 0

\* C20: the Hits, Misses and Size a call of Stats returns are the values the
\* cache's counters and size had together at one instant between the start
\* of the call and its return.
C20_StatsIsSnapshot ==
    \A p \in Procs :
        stats[p].res # Nil =>
            <<stats[p].res.Hits, stats[p].res.Misses, stats[p].res.Size>>
                \in stats[p].seen

\* C21: the entry a Set has stored has ExpiresAt equal to its own CreatedAt
\* plus the ttl passed to that Set, whatever CreatedAt and ExpiresAt the
\* caller supplied.
C21_ExpiresAtIsCreatedAtPlusTTL ==
    chain.st = "stored" =>
        /\ chain.key \in DOMAIN entries
        /\ heap[entries[chain.key]].ExpiresAt =
              heap[entries[chain.key]].CreatedAt + chain.ttl

\* C22: the store owns what it holds: a caller assigning a field of an entry
\* object it passed to Set leaves what the store holds under every key as
\* it was, and Set leaves the caller's entry object as the caller built it.
C22_StoreOwnsEntries ==
    [][/\ (\E p \in Procs, o \in Objs, f \in Fields : MutateEntry(p, o, f))
            => StoreView' = StoreView
       /\ (\E p \in Procs, k \in Keys, o \in Objs, ttl \in TTLs :
              Set(p, k, o, ttl))
            => heap' = heap]_vars

\* C23: no operation of the cache crashes, whatever its arguments: no
\* caller's goroutine is ever left panicking, an empty key or a nil entry
\* given to Set with a positive ttl included.
C23_NoOperationCrashes ==
    \A p \in Procs : pc[p] # "panicked"

\* the places in the history where the callback f was invoked
Invoked(f) ==
    {i \in 1..Len(promise.log) : promise.log[i].fn = f}

\* the caller has returned from every method it calls and resolve has
\* returned
Settled ==
    /\ promise # Nil
    /\ promise.next > Len(promise.program)
    /\ promise.rpc = "exit"

Registers(m) == \E i \in DOMAIN promise.program : promise.program[i] = m

\* C24: however the caller's Then and Catch interleave with the completion
\* of the request: no callback runs before the request has completed; after
\* a success the Then callback has run at most once, with the response, and
\* the Catch callback not at all; after a failure the Catch callback has run
\* at most once, with the error, and the Then callback not at all; and once
\* the caller's calls and resolve have returned, the callback that applies
\* has run exactly once if it was given.
C24_ThenOrCatchExactlyOnce ==
    promise # Nil =>
        IF promise.result = Nil
        THEN promise.log = <<>>
        ELSE IF promise.result.err = Nil
             THEN /\ Invoked("onCatch") = {}
                  /\ Cardinality(Invoked("onThen")) <= 1
                  /\ \A i \in Invoked("onThen") :
                        promise.log[i].arg = promise.result.resp
                  /\ Settled /\ Registers("Then") =>
                        Cardinality(Invoked("onThen")) = 1
             ELSE /\ Invoked("onThen") = {}
                  /\ Cardinality(Invoked("onCatch")) <= 1
                  /\ \A i \in Invoked("onCatch") :
                        promise.log[i].arg = promise.result.err
                  /\ Settled /\ Registers("Catch") =>
                        Cardinality(Invoked("onCatch")) = 1

\* a failed request whose Catch was called after resolve: Catch itself ran
\* the callback, Then kept its callback unused
C24_Witness ==
    /\ Settled
    /\ promise.program = <<"Then", "Catch">>
    /\ promise.result.err # Nil
    /\ promise.then # Nil
    /\ promise.log = <<[fn |-> "onCatch", arg |-> promise.result.err,
                        by |-> "caller"]>>

\* the caller's call of the method m has returned
Returned(m) ==
    \E i \in DOMAIN promise.program :
        promise.program[i] = m /\ i < promise.next

\* the caller calls m before it calls Finally
BeforeFinally(m) ==
    \E i, j \in DOMAIN promise.program :
        /\ promise.program[i] = m
        /\ promise.program[j] = "Finally"
        /\ i < j

\* the caller is at or inside its call of Finally
AtFinally ==
    \/ Calling("Finally")
    \/ promise.cpc \in {"finally_fn", "finally_wait"}

\* what holds of the Finally callback in every state
FinallyOnce ==
    /\ Cardinality(Invoked("onFinally")) <= 1
    /\ Returned("Finally") =>
          /\ promise.result # Nil
          /\ promise.response # Nil \/ promise.err # Nil
          /\ promise.done
          /\ Cardinality(Invoked("onFinally")) = 1
    /\ \A i \in Invoked("onFinally") :
          /\ BeforeFinally("Then") => \A j \in Invoked("onThen") : j < i
          /\ BeforeFinally("Catch") => \A j \in Invoked("onCatch") : j < i

\* C25: the Finally callback runs at most once, and exactly once by the time
\* the call of Finally has returned, whether Finally was called before or
\* after the request completed and whether the request succeeded or failed;
\* the call of Finally returns only when the promise is resolved; with Then
\* or Catch called before Finally, their callbacks run before the Finally
\* callback; and a call of Finally on a promise whose request has completed
\* eventually returns.
C25_FinallyOnceAndReturns ==
    /\ [](promise # Nil => FinallyOnce)
    /\ (promise # Nil /\ AtFinally /\ promise.result # Nil)
          ~> (promise # Nil /\ Returned("Finally"))

\* Then, Catch, Finally in a chain on a request that succeeds: resolve ran
\* the Then callback, the later call of Finally ran its callback itself and
\* has returned
C25_Witness ==
    /\ promise # Nil
    /\ promise.program = <<"Then", "Catch", "Finally">>
    /\ Returned("Finally")
    /\ promise.log = <<[fn |-> "onThen", arg |-> promise.result.resp,
                        by |-> "resolver"],
                       [fn |-> "onFinally", arg |-> Nil, by |-> "caller"]>>

\* C26: the Delete a Get issues for the entry it found expired removes no
\* entry that is not expired, whatever the other goroutines did in between.
C26_GetRemovesOnlyExpired ==
    [][\A p \in Procs :
         GetDelete(p) =>
            \A k \in DOMAIN entries \ DOMAIN entries' :
               IsExpired(heap[entries[k]])]_vars

\* the Get of p follows the Set of its key with no other operation between
\* them or during it
Alone(p) == chain.st = "getting" /\ chain.proc = p

\* C27: a Get that has found the entry under its key expired deletes the
\* key itself, in its own step and not through the sweep, then counts one
\* miss and no hit and returns absent; when no other operation interleaves,
\* the entry it deletes is the one it found and the store has one entry
\* fewer, the others kept.
C27_GetRemovesExpiredEntry ==
    [][\A p \in Procs :
         /\ pc[p] = "get_delete" /\ pc'[p] = "get_del_unlock" =>
               /\ loc[p].key \notin DOMAIN entries'
               /\ swpc' = swpc
               /\ Alone(p) =>
                     /\ loc[p].key \in DOMAIN entries
                     /\ heap[entries[loc[p].key]] = loc[p].copy
                     /\ entries' = Remove(entries, loc[p].key)
                     /\ Cardinality(DOMAIN entries') =
                           Cardinality(DOMAIN entries) - 1
         /\ pc[p] = "get_miss" /\ loc[p].exists /\ pc'[p] = "idle" =>
               /\ misses' = misses + 1
               /\ hits' = hits
               /\ ret'[p] = Nil
               /\ Alone(p) => loc[p].key \notin DOMAIN entries]_vars

\* a Get alone on a key whose entry has expired has deleted it and is about
\* to count the miss
C27_Witness ==
    \E p \in Procs :
        /\ Alone(p)
        /\ pc[p] = "get_miss"
        /\ loc[p].exists
        /\ IsExpired(loc[p].copy)
        /\ loc[p].key \notin DOMAIN entries
        /\ entries # EmptyMap

\* the Set in progress found the store at capacity with an expired entry
EvictsWithExpired ==
    /\ chain.st = "evicting"
    /\ pc[chain.proc] = "set_unlock"
    /\ chain.full
    /\ chain.expired # {}

\* C28: a Set that finds the store at capacity with at least one expired
\* entry evicts exactly one entry, an expired one: the store it leaves is
\* the one it found less one expired key, plus the key it sets, so every
\* entry that was not expired is still there or is the one the Set replaces.
C28_EvictionPrefersExpired ==
    EvictsWithExpired =>
        /\ \E j \in chain.expired :
              entries = Put(Remove(chain.before, j), chain.key, chain.obj)
        /\ \A j \in DOMAIN chain.before \ DOMAIN entries : j \in chain.expired

\* such a Set where an entry that is not expired was created before every
\* expired one, and is kept
C28_Witness ==
    /\ EvictsWithExpired
    /\ \E j \in DOMAIN chain.before \ chain.expired :
          /\ j # chain.key
          /\ j \in DOMAIN entries
          /\ \A e \in chain.expired : chain.created[j] < chain.created[e]

\* C29: a sweep removes every stored entry that is expired when it runs and
\* no other: each key whose entry has expired is gone, each other key still
\* holds the same entry, no key appears; the sweep, its unlock included,
\* leaves Hits, Misses and the entry objects as they were.
C29_SweepRemovesExactlyExpired ==
    [][/\ swpc = "wait" /\ swpc' = "unlock" =>
             /\ DOMAIN entries' =
                   {k \in DOMAIN entries : ~IsExpired(heap[entries[k]])}
             /\ \A k \in DOMAIN entries' : entries'[k] = entries[k]
             /\ <<hits, misses, heap>>' = <<hits, misses, heap>>
       /\ swpc = "unlock" /\ swpc' = "wait" =>
             <<entries, hits, misses, heap>>' = <<entries, hits, misses, heap>>
      ]_vars

\* the sweep in progress found an expired entry and one that had not
\* expired: it has removed the first and kept the second
C29_Witness ==
    /\ swpc = "unlock"
    /\ chain.st = "swept"
    /\ chain.expired # {}
    /\ chain.expired # DOMAIN chain.before
    /\ DOMAIN entries = DOMAIN chain.before \ chain.expired

\* the time at which the ttl of the last Set on the key k ends (the ttls of
\* ReclaimNext are equal, so the last Set is the one that ends last)
Deadline(k) ==
    CHOOSE d \in {w.ExpiresAt : w \in writes[k]} :
        \A w \in writes[k] : w.ExpiresAt <= d

C31_CloseStopsTheSweep ==
    /\ [][closeCalls > 0 => ~(swpc = "wait" /\ swpc' = "unlock")]_vars
    /\ (closeCalls > 0) ~> (swpc = "stopped")

C33_SetStampsAndReplaces ==
    /\ chain.st = "setting" =>
          /\ chain.key \in DOMAIN entries
          /\ heap[entries[chain.key]].ExpiresAt = chain.exp
          /\ Supplied(View(heap[entries[chain.key]])) = chain.snap
    /\ \A p \in Procs :
          (Alone(p) /\ now <= chain.exp) =>
              /\ loc[p].exists
              /\ pc[p] \notin {"get_delete", "get_del_unlock", "get_miss"}
              /\ pc[p] # "get_runlock" => loc[p].copy.ExpiresAt = chain.exp

\* the only Set so far was given an entry whose ExpiresAt had passed; the
\* Get that follows it is about to return the entry
C33_Witness ==
    /\ ops = 2
    /\ \E p \in Procs :
          /\ Alone(p)
          /\ pc[p] = "get_hit"
          /\ now <= chain.exp
          /\ \A o \in Objs : heap[o].ExpiresAt # chain.exp => heap[o].ExpiresAt < now

\* C34: with a capacity set, a Set on a key that is already stored removes
\* no other key: the store it leaves has the keys it found, each other key
\* with the entry it had, and its own key with the entry it was given.
C34_ReplacingSetEvictsNothing ==
    (/\ chain.st = "evicting"
     /\ pc[chain.proc] = "set_unlock"
     /\ maxSize > 0
     /\ chain.key \in DOMAIN chain.before) =>
        entries = Put(chain.before, chain.key, chain.obj)

\* C35: a Set that evicts nothing leaves every other key stored, with every
\* field of its entry, ExpiresAt included, as it was, whichever entry object
\* the caller passes.
C35_SetLeavesOtherKeys ==
    [][\A p \in Procs :
         (pc[p] = "idle" /\ pc'[p] = "set_unlock" /\ ~AtCapacity) =>
            \A j \in DOMAIN entries \ {chain'.key} :
               /\ j \in DOMAIN entries'
               /\ StoreView'[j] = StoreView[j]]_vars

\* C36: the Size that Stats reads is the number of live entries: the number
\* of keys for which a Get made at the moment of the reading would return an
\* entry, expired entries not counted.
C36_SizeCountsLiveEntries ==
    [][\A p \in Procs :
         (pc[p] = "stats_rlock" /\ pc'[p] = "stats_runlock") =>
            stats'[p].size =
               Cardinality({k \in DOMAIN entries :
                              ~IsExpired(heap[entries[k]])})]_vars

\* C37: every call of Get, Set, Delete, Clear, Stats or Close that is in
\* progress eventually returns, whatever the other goroutine and the sweep
\* do; and a Get that is past its lookup, its lazy Delete included, no
\* longer holds the read lock.
C37_EveryCallReturns ==
    /\ [](\A p \in Procs :
            pc[p] \in {"get_expiry", "get_delete", "get_del_unlock",
                       "get_miss", "get_hit"} => p \notin mu.r)
    /\ \A p \in Procs : (pc[p] # "idle") ~> (pc[p] = "idle")

\* a Get holds the write lock for its lazy Delete while the other goroutine
\* waits for the lock in Close or in Stats
C37_Witness ==
    \E p, q \in Procs :
        /\ pc[p] = "get_del_unlock"
        /\ mu.w = p
        /\ pc[q] \in {"close_lock", "stats_rlock"}

\* the network call of goroutine p has been made
Sent(p) == IF req[p] = Nil THEN FALSE ELSE req[p].st \in {"sent", "done"}

\* C38: with several requests running concurrently on one Client, every
\* network call is made under the Timeout, MaxRedirects and Proxy of its own
\* request; a request without a Proxy is not sent through a proxy.
C38_CallUsesOwnSettings ==
    \A p \in Procs :
        Sent(p) =>
            /\ req[p].do.Timeout = req[p].options.Timeout
            /\ req[p].do.CheckRedirect = req[p].options.MaxRedirects
            /\ req[p].do.Transport = req[p].options.Proxy

\* C39: on the promise RequestAsync returns, the Finally callback runs at
\* most once, and a call of Finally eventually returns.
C39_FinallyOnRequestAsyncReturns ==
    LET Literal == promise # Nil /\ promise.rpc = "exit" /\ ~promise.done
    IN /\ [](Literal => Cardinality(Invoked("onFinally")) <= 1)
       /\ (Literal /\ AtFinally) ~> (promise # Nil /\ Returned("Finally"))
====
